---- MODULE Spec2Model ----
(***************************************************************************)
(* Model of the hair-product harvesting pipeline: the ingredient validator *)
(* (src/core/inci_validator.py), the ingredient splitter                   *)
(* (src/extraction/inci_extractor.py), the deterministic extractor         *)
(* (src/extraction/deterministic.py), the quality gate                     *)
(* (src/core/qa_gate.py), the repository (src/storage/repository.py), the  *)
(* quarantine review route (src/api/routes/quarantine.py), the coverage    *)
(* engine (src/pipeline/coverage_engine.py) and the single-product writer  *)
(* of scripts/amend_full_extraction.py.                                    *)
(*                                                                         *)
(* Strings are abstracted to the attributes the code reads from them.  An  *)
(* ingredient item is a record [base, cap]: base is the lower-cased text,  *)
(* cap tells whether the page wrote it capitalised, so that s.lower() is   *)
(* [base, FALSE] and two items are equal ignoring case iff their bases are *)
(* equal.  Floats 0.0 / 0.30 / 0.85 / 0.90 are kept in hundredths.         *)
(***************************************************************************)
EXTENDS Integers, Sequences, FiniteSets, TLC

\* None among strings
NULL == "null"

\* An optional value that is not a string is a sequence of length 0 or 1
None == <<>>
Some(v) == <<v>>

-----------------------------------------------------------------------------
(* Sequence helpers *)

Range(s) == {s[i] : i \in 1..Len(s)}

RECURSIVE SelectIdx(_, _, _)
\* the subsequence of s at the indices in keep, in order (list comprehension)
SelectIdx(s, keep, i) ==
    IF i > Len(s) THEN <<>>
    ELSE (IF i \in keep THEN <<s[i]>> ELSE <<>>) \o SelectIdx(s, keep, i + 1)

-----------------------------------------------------------------------------
(* Ingredient text: src/core/inci_validator.py *)

\* validate_inci_list: len(cleaned) < 5
MinInciTerms == 5

It(b, c) == [base |-> b, cap |-> c]

\* the empty string among the pieces of a text
EmptyPiece == It("", FALSE)

\* What the validator reads from the text of one comma/bullet separated piece.
\*   len, tokens : len(s) and len(s.split()) after strip
\*   url         : re.search("https?://", s)
\*   verb        : some VERB_INDICATORS entry is a substring of s.lower()
\*   heading     : re.match of a PRODUCT_HEADING_PATTERNS entry at the start
\*   anchor      : s.lower() in ("aqua", "water", "aqua/water")
\*   marker      : the piece begins with a CUT_MARKERS entry (the vocabulary
\*                 below has no piece with a marker in its middle)
\*   garbage     : the piece is exactly a GARBAGE_PHRASES entry
BaseInfo(b) ==
    CASE b = "aqua" ->
           [len |-> 4, tokens |-> 1, url |-> FALSE, verb |-> FALSE,
            heading |-> FALSE, anchor |-> TRUE, marker |-> FALSE, garbage |-> FALSE]
      [] b = "water" ->
           [len |-> 5, tokens |-> 1, url |-> FALSE, verb |-> FALSE,
            heading |-> FALSE, anchor |-> TRUE, marker |-> FALSE, garbage |-> FALSE]
      [] b = "glycerin" ->
           [len |-> 8, tokens |-> 1, url |-> FALSE, verb |-> FALSE,
            heading |-> FALSE, anchor |-> FALSE, marker |-> FALSE, garbage |-> FALSE]
      [] b = "parfum" ->
           [len |-> 6, tokens |-> 1, url |-> FALSE, verb |-> FALSE,
            heading |-> FALSE, anchor |-> FALSE, marker |-> FALSE, garbage |-> FALSE]
      [] b = "cetearyl alcohol" ->
           [len |-> 16, tokens |-> 2, url |-> FALSE, verb |-> FALSE,
            heading |-> FALSE, anchor |-> FALSE, marker |-> FALSE, garbage |-> FALSE]
      [] b = "dimethicone" ->
           [len |-> 11, tokens |-> 1, url |-> FALSE, verb |-> FALSE,
            heading |-> FALSE, anchor |-> FALSE, marker |-> FALSE, garbage |-> FALSE]
      [] b = "shampoo: aqua" ->
           [len |-> 13, tokens |-> 2, url |-> FALSE, verb |-> FALSE,
            heading |-> TRUE, anchor |-> FALSE, marker |-> FALSE, garbage |-> FALSE]
      [] b = "parfum. condicionador: aqua" ->
           [len |-> 27, tokens |-> 3, url |-> FALSE, verb |-> FALSE,
            heading |-> FALSE, anchor |-> FALSE, marker |-> FALSE, garbage |-> FALSE]
      [] b = "aplique nos cabelos molhados" ->
           [len |-> 28, tokens |-> 4, url |-> FALSE, verb |-> TRUE,
            heading |-> FALSE, anchor |-> FALSE, marker |-> FALSE, garbage |-> FALSE]
      [] b = "modo de uso: aplique" ->
           [len |-> 20, tokens |-> 4, url |-> FALSE, verb |-> TRUE,
            heading |-> FALSE, anchor |-> FALSE, marker |-> TRUE, garbage |-> FALSE]
      [] b = "ver ver maismais" ->
           [len |-> 16, tokens |-> 3, url |-> FALSE, verb |-> FALSE,
            heading |-> FALSE, anchor |-> FALSE, marker |-> FALSE, garbage |-> FALSE]
      [] b = "ver mais" ->
           [len |-> 8, tokens |-> 2, url |-> FALSE, verb |-> FALSE,
            heading |-> FALSE, anchor |-> FALSE, marker |-> FALSE, garbage |-> TRUE]
      [] OTHER ->
           [len |-> 0, tokens |-> 0, url |-> FALSE, verb |-> FALSE,
            heading |-> FALSE, anchor |-> FALSE, marker |-> FALSE, garbage |-> FALSE]

Lower(item) == [item EXCEPT !.cap = FALSE]

LowerList(items) == [i \in 1..Len(items) |-> Lower(items[i])]

\* A raw ingredient text: the separator class the page uses and its pieces.
RawText(sep, pieces) == [sep |-> sep, pieces |-> pieces]

\* None and "" alike: no ingredient text (both are falsy wherever the code
\* tests an ingredient text)
NoText == RawText(",", <<>>)

RECURSIVE FirstMarker(_, _)
\* index of the first piece holding a cut marker, Len+1 when there is none
FirstMarker(pieces, i) ==
    IF i > Len(pieces) THEN i
    ELSE IF BaseInfo(pieces[i].base).marker THEN i
    ELSE FirstMarker(pieces, i + 1)

\* re.sub(re.escape(phrase), "", text) over the GARBAGE_PHRASES, for one
\* piece: every occurrence found in one left-to-right pass is deleted and what
\* stood on its two sides is joined, so "ver ver maismais" loses its inner
\* "ver mais" and is left as "ver mais".  A piece is EmptyPiece once nothing is
\* left of it.
WithoutGarbage(item) ==
    IF BaseInfo(item.base).garbage THEN EmptyPiece
    ELSE IF item.base = "ver ver maismais" THEN It("ver mais", item.cap)
    ELSE item

\* clean_inci_text: cut at the earliest cut marker (text[:idx]), delete the
\* garbage phrases, strip.
clean_inci_text(raw) ==
    LET cut  == FirstMarker(raw.pieces, 1)
        kept == SubSeq(raw.pieces, 1, cut - 1)
        degarbage == [i \in 1..Len(kept) |-> WithoutGarbage(kept[i])]
    IN  [sep |-> raw.sep, pieces |-> degarbage]

\* the cleaned text is the empty string
IsEmptyText(text) == \A i \in 1..Len(text.pieces) : text.pieces[i] = EmptyPiece

validate_ingredient(item) ==
    LET a == BaseInfo(item.base)
    IN  /\ ~(a.len < 2 \/ a.len > 80)
        /\ ~a.url
        /\ ~(a.tokens > 8)
        /\ ~(a.verb /\ a.tokens > 3)

detect_concatenation(ingredients) ==
    LET lower_list == LowerList(ingredients)
        aqua_positions == {i \in 1..Len(lower_list) :
                              BaseInfo(lower_list[i].base).anchor}
    IN  \/ /\ Cardinality(aqua_positions) >= 2
           /\ \E p \in aqua_positions, q \in aqua_positions :
                /\ p < q
                /\ \A r \in aqua_positions : ~(p < r /\ r < q)
                /\ q - p > 1
        \/ \E i \in 1..Len(lower_list) : BaseInfo(lower_list[i].base).heading

detect_repetition(ingredients) ==
    LET normalized == LowerList(ingredients)
        n == Len(normalized)
    IN  \E block_size \in 3..(n \div 2) :
            SubSeq(normalized, 1, block_size)
                = SubSeq(normalized, block_size + 1, block_size * 2)

NumStr(n) ==
    CASE n = 0 -> "0" [] n = 1 -> "1" [] n = 2 -> "2" [] n = 3 -> "3"
      [] n = 4 -> "4" [] OTHER -> "many"

INCIValidationResult(valid, cleaned, reason, removed) ==
    [valid |-> valid, cleaned |-> cleaned, rejection_reason |-> reason,
     removed |-> removed]

RECURSIVE DedupLoop(_, _, _, _, _)
\* the for-loop of validate_inci_list: seen / cleaned / removed after item i..
DedupLoop(ingredients, i, seen, cleaned, removed) ==
    IF i > Len(ingredients) THEN [cleaned |-> cleaned, removed |-> removed]
    ELSE LET s   == ingredients[i]
             key == Lower(s)
         IN  IF s = EmptyPiece
             THEN DedupLoop(ingredients, i + 1, seen, cleaned, removed)
             ELSE IF key \in seen
             THEN DedupLoop(ingredients, i + 1, seen, cleaned, Append(removed, s))
             ELSE IF ~validate_ingredient(s)
             THEN DedupLoop(ingredients, i + 1, seen, cleaned, Append(removed, s))
             ELSE DedupLoop(ingredients, i + 1, seen \cup {key},
                            Append(cleaned, s), removed)

\* the end of validate_inci_list, were six terms the minimum
CountCleanedAboveFive(r) ==
    IF Len(r.cleaned) <= MinInciTerms
    THEN INCIValidationResult(FALSE, r.cleaned,
             <<"min_ingredients", NumStr(Len(r.cleaned))>>, r.removed)
    ELSE INCIValidationResult(TRUE, r.cleaned, <<>>, r.removed)

\* the end of validate_inci_list, r being what the for-loop left
CountCleaned(r) ==
    IF Len(r.cleaned) < MinInciTerms
    THEN INCIValidationResult(FALSE, r.cleaned,
             <<"min_ingredients", NumStr(Len(r.cleaned))>>, r.removed)
    ELSE INCIValidationResult(TRUE, r.cleaned, <<>>, r.removed)

\* a rejection reason is the sequence of its parts; "" is <<>>
validate_inci_list(ingredients) ==
    IF detect_repetition(ingredients)
    THEN INCIValidationResult(FALSE, <<>>, <<"repetition_detected">>, <<>>)
    ELSE IF detect_concatenation(ingredients)
    THEN INCIValidationResult(FALSE, <<>>, <<"concat_detected">>, <<>>)
    ELSE CountCleaned(DedupLoop(ingredients, 1, {}, <<>>, <<>>))

(* src/extraction/inci_extractor.py *)

IsPiece(p) == p # EmptyPiece

\* split on the one separator class of the text, strip, drop the empties
_split_ingredients(text) == SelectSeq(text.pieces, IsPiece)

extract_and_validate_inci(raw_text) ==
    IF IsEmptyText(raw_text)
    THEN INCIValidationResult(FALSE, <<>>, <<"no_inci_text">>, <<>>)
    ELSE LET cleaned_text == clean_inci_text(raw_text)
         IN  IF IsEmptyText(cleaned_text)
             THEN INCIValidationResult(FALSE, <<>>, <<"empty_after_cleaning">>, <<>>)
             ELSE validate_inci_list(_split_ingredients(cleaned_text))

-----------------------------------------------------------------------------
(* Vocabulary of ingredient texts a product page can carry *)

Aqua       == It("aqua", TRUE)
Glycerin   == It("glycerin", TRUE)
GlycerinLc == It("glycerin", FALSE)
Parfum     == It("parfum", TRUE)
Cetearyl   == It("cetearyl alcohol", TRUE)
Dimethicone == It("dimethicone", TRUE)

\* exactly five valid, distinct items
RawValid5  == RawText(",", <<Aqua, Glycerin, Parfum, Cetearyl, Dimethicone>>)
\* a case-duplicate and a trailing usage section behind a cut marker
RawValidDup == RawText(",", <<Aqua, Glycerin, GlycerinLc, Parfum, Cetearyl,
                              Dimethicone, It("modo de uso: aplique", TRUE)>>)
\* three items only
RawShort   == RawText(",", <<Aqua, Glycerin, Parfum>>)
\* "Shampoo: Aqua, Glycerin, Parfum. Condicionador: Aqua, Cetearyl Alcohol,
\*  Dimethicone"
RawConcat  == RawText(",", <<It("shampoo: aqua", TRUE), Glycerin,
                             It("parfum. condicionador: aqua", TRUE),
                             Cetearyl, Dimethicone>>)
\* the block Aqua, Glycerin, Parfum twice
RawRepeat  == RawText(",", <<Aqua, Glycerin, Parfum, Aqua, Glycerin, Parfum>>)
\* nothing but a usage section
RawMarkerOnly == RawText(",", <<It("modo de uso: aplique", TRUE)>>)

InvalidRawTexts == {RawShort, RawConcat, RawRepeat, RawMarkerOnly}

-----------------------------------------------------------------------------
(* The tab-label heuristic: src/extraction/deterministic.py *)

INCI_TAB_LABELS ==
    <<"lista completa de ingredientes", "full ingredient list",
      "composição completa", "composição do produto",
      "composição", "composicao",
      "ingredientes", "ingredients", "inci">>

\* text.startswith(label), for the texts of the vocabulary below
StartsWith(text, label) ==
    \/ text = label
    \/ <<text, label>> \in {<<"composição completa", "composição">>}

\* label in text, for the texts of the vocabulary below
Contains(text, label) ==
    \/ StartsWith(text, label)
    \/ <<text, label>> \in {<<"lista completa de ingredientes", "ingredientes">>}

\* _label_priority: the 0-based position of the label in INCI_TAB_LABELS
_label_priority(matched_label) ==
    IF \E i \in 1..Len(INCI_TAB_LABELS) : INCI_TAB_LABELS[i] = matched_label
    THEN (CHOOSE i \in 1..Len(INCI_TAB_LABELS) :
              INCI_TAB_LABELS[i] = matched_label) - 1
    ELSE Len(INCI_TAB_LABELS)

RECURSIVE TextLen(_, _)
\* len(text) from piece i on, the pieces being joined by ", "
TextLen(pieces, i) ==
    IF i > Len(pieces) THEN 0
    ELSE BaseInfo(pieces[i].base).len
           + (IF i < Len(pieces) THEN 2 ELSE 0) + TextLen(pieces, i + 1)

\* _looks_like_inci: at least 30 characters and a separator in the text
_looks_like_inci(text) ==
    /\ TextLen(text.pieces, 1) >= 30
    /\ Len(text.pieces) >= 2

\* An element whose text is or begins with a label, as Strategy 1 reads it.
\*   tag            : el.name
\*   head           : el_text up to the end of the label it begins with
\*   inline         : what el_text holds after that label
\*   desc_ps        : the texts of the <p> descendants, in document order
\*   sibling        : the text of el.find_next_sibling()
\*   next_p         : the text of el.find_next("p")
\*   section        : the text of el.parent after the label
\*   parent_sibling : the text of el.parent.find_next_sibling()
\* NoText where the page has no such element or text.  No text of the
\* vocabulary begins with one of the TAB_NOISE_PREFIXES, so that
\* _clean_tab_content returns it as it is.
TabElement(tag, head, inline, desc_ps, sibling, next_p, section, parent_sibling) ==
    [tag |-> tag, head |-> head, inline |-> inline, desc_ps |-> desc_ps,
     sibling |-> sibling, next_p |-> next_p, section |-> section,
     parent_sibling |-> parent_sibling]

\* An element of class collapse__content, tab-content, tab-pane or
\* accordion-content with a previous sibling, as Strategy 2 reads it.
TabPanel(prev_text, content) == [prev_text |-> prev_text, content |-> content]

\* What the heuristic reads of a page: the elements matching a label, in
\* document order, and the panels, in the order the loop visits them.
Soup(labelled, panels) == [labelled |-> labelled, panels |-> panels]

NoTabs == Soup(<<>>, <<>>)

\* the positions of the labels the text matches, under a matching rule
MatchedLabels(text, byContainment) ==
    {i \in 1..Len(INCI_TAB_LABELS) :
        IF byContainment THEN Contains(text, INCI_TAB_LABELS[i])
        ELSE StartsWith(text, INCI_TAB_LABELS[i])}

\* for label in INCI_TAB_LABELS: ... break -- the first label that matches
FirstLabel(matched) ==
    INCI_TAB_LABELS[CHOOSE i \in matched : \A j \in matched : i <= j]

Candidate(content, priority) == [content |-> content, priority |-> priority]

\* the first <p> descendant whose text looks like an ingredient list
FirstInciP(desc_ps) ==
    IF \E k \in 1..Len(desc_ps) : _looks_like_inci(desc_ps[k])
    THEN Some(desc_ps[CHOOSE k \in 1..Len(desc_ps) :
                        /\ _looks_like_inci(desc_ps[k])
                        /\ \A j \in 1..(k - 1) : ~_looks_like_inci(desc_ps[j])])
    ELSE None

\* Checks 1 to 5 on one element: the content the first successful check
\* found, None when every check fails
ElementContent(el) ==
    IF TextLen(el.inline.pieces, 1) > 30 /\ _looks_like_inci(el.inline)
    THEN IF FirstInciP(el.desc_ps) # None
         THEN FirstInciP(el.desc_ps) ELSE Some(el.inline)
    ELSE IF _looks_like_inci(el.sibling) THEN Some(el.sibling)
    ELSE IF el.tag \in {"h2", "h3", "h4"} /\ _looks_like_inci(el.next_p)
    THEN Some(el.next_p)
    ELSE IF _looks_like_inci(el.section) THEN Some(el.section)
    ELSE IF _looks_like_inci(el.parent_sibling) THEN Some(el.parent_sibling)
    ELSE None

RECURSIVE Strategy1(_, _, _)
\* the candidates after the elements from position i on
Strategy1(labelled, i, candidates) ==
    IF i > Len(labelled) THEN candidates
    ELSE LET el == labelled[i]
             matched == MatchedLabels(el.head, FALSE)
         IN  IF matched = {} \/ ElementContent(el) = None
             THEN Strategy1(labelled, i + 1, candidates)
             ELSE Strategy1(labelled, i + 1,
                      Append(candidates,
                             Candidate(ElementContent(el)[1],
                                       _label_priority(FirstLabel(matched)))))

RECURSIVE Strategy2(_, _, _)
Strategy2(panels, i, candidates) ==
    IF i > Len(panels) THEN candidates
    ELSE LET el == panels[i]
             matched == MatchedLabels(el.prev_text, TRUE)
         IN  IF matched = {} \/ ~_looks_like_inci(el.content)
             THEN Strategy2(panels, i + 1, candidates)
             ELSE Strategy2(panels, i + 1,
                      Append(candidates,
                             Candidate(el.content,
                                       _label_priority(FirstLabel(matched)))))

\* the candidates in the order the two strategies gather them
Candidates(soup) ==
    Strategy2(soup.panels, 1, Strategy1(soup.labelled, 1, <<>>))

\* candidates unsorted
KeepOrder(candidates) == candidates

RECURSIVE SortByPriority(_)
\* candidates.sort(key=lambda x: x[2]): a stable sort, so that of two
\* candidates of one priority the one gathered first stays first
SortByPriority(candidates) ==
    IF candidates = <<>> THEN <<>>
    ELSE LET k == CHOOSE k \in 1..Len(candidates) :
                     /\ \A j \in 1..Len(candidates) :
                           candidates[k].priority <= candidates[j].priority
                     /\ \A j \in 1..(k - 1) :
                           candidates[j].priority # candidates[k].priority
         IN  <<candidates[k]>>
               \o SortByPriority(SubSeq(candidates, 1, k - 1)
                                   \o SubSeq(candidates, k + 1, Len(candidates)))

\* _extract_inci_by_tab_labels: the content of the first candidate after the
\* sort, NoText (None in the code) without candidates
_extract_inci_by_tab_labels(soup) ==
    IF Candidates(soup) = <<>> THEN NoText
    ELSE SortByPriority(Candidates(soup))[1].content

\* the elements and panels of the vocabulary
ButtonIngredientes ==
    TabElement("button", "ingredientes", NoText, <<>>, RawConcat, NoText,
               NoText, NoText)
ButtonListaCompleta ==
    TabElement("button", "lista completa de ingredientes", NoText, <<>>,
               RawValid5, NoText, NoText, NoText)
HeadingComposicaoCompleta ==
    TabElement("h3", "composição completa", NoText, <<>>, NoText, RawValidDup,
               NoText, NoText)
DivIngredientesInline ==
    TabElement("div", "ingredientes", RawValid5, <<RawShort, RawRepeat>>,
               NoText, NoText, NoText, NoText)
SpanIngredientesSection ==
    TabElement("span", "ingredientes", NoText, <<>>, RawShort, RawRepeat,
               RawValidDup, NoText)
ButtonIngredientsShort ==
    TabElement("button", "ingredients", RawShort, <<>>, RawShort, NoText,
               RawMarkerOnly, NoText)
LinkComposicao ==
    TabElement("a", "composição", NoText, <<>>, NoText, NoText, NoText,
               RawValidDup)

TabElements ==
    {ButtonIngredientes, ButtonListaCompleta, HeadingComposicaoCompleta,
     DivIngredientesInline, SpanIngredientesSection, ButtonIngredientsShort,
     LinkComposicao}

TabPanels ==
    {TabPanel("lista completa de ingredientes", RawValidDup),
     TabPanel("ingredientes", RawShort),
     TabPanel("composição", RawConcat),
     TabPanel("modo de uso", RawValid5)}

-----------------------------------------------------------------------------
(* URLs.  A URL is its host labels, its path segments, whether it ends in *)
(* "/" and its query string.                                              *)

Url(host, segs, slash, query) ==
    [host |-> host, segs |-> segs, slash |-> slash, query |-> query]

HostWww  == <<"www", "amend", "com", "br">>
HostApex == <<"amend", "com", "br">>

UrlShampoo == Url(HostWww, <<"shampoo-gold-black-reparador">>, FALSE, "")
UrlMascara == Url(HostWww, <<"mascara-nutritiva-300ml", "p", "1606-1.html">>, FALSE, "")
UrlApex    == Url(HostApex, <<"condicionador-gold-black-nutritivo">>, FALSE, "")
UrlKit     == Url(HostWww, <<"kit-combo">>, FALSE, "")
UrlBody    == Url(HostWww, <<"corpo", "hidratante-corporal">>, FALSE, "")
UrlBlog    == Url(HostWww, <<"blog">>, FALSE, "")
UrlCategory == Url(HostWww, <<"busca">>, TRUE, "cgid=shampoo")

\* the blueprint's allowed_domains of the brand (scripts: ALLOWED_DOMAINS)
AllowedDomains(brand_slug) ==
    IF brand_slug = "amend" THEN <<HostWww>> ELSE <<>>

\* host == d or host.endswith("." + d), on label sequences
_check_domain(url, allowed_domains) ==
    LET host == url.host
    IN  \E k \in 1..Len(allowed_domains) :
          LET d == allowed_domains[k]
          IN  \/ host = d
              \/ /\ Len(host) > Len(d)
                 /\ SubSeq(host, Len(host) - Len(d) + 1, Len(host)) = d

-----------------------------------------------------------------------------
(* Product pages: what the deterministic extractor can find in the HTML *)

\* ld        : an embedded JSON-LD block of @type Product exists
\* ld_name, ld_image, ld_desc, ld_price : its name, image, description and
\*             offers.price (NULL when absent)
\* sel_name  : text of the first matching name selector (NULL when none)
\* sel_inci  : text of the first matching ingredient selector
\* tab_inci  : the elements and panels the tab-label heuristic reads
\* sel_image : src of the first matching image selector
\* og_image  : content of the og:image meta tag
Page(ld, ld_name, ld_image, ld_desc, ld_price, sel_name, sel_inci, tab_inci, sel_image, og_image) ==
    [ld |-> ld, ld_name |-> ld_name, ld_image |-> ld_image, ld_desc |-> ld_desc,
     ld_price |-> ld_price, sel_name |-> sel_name, sel_inci |-> sel_inci,
     tab_inci |-> tab_inci, sel_image |-> sel_image, og_image |-> og_image]

PageFull    == Page(TRUE, "Shampoo Reparador", "ld.jpg", "Repara os fios", "29.90",
                    NULL, RawValid5, NoTabs, NULL, NULL)
PageCatalog == Page(TRUE, "Shampoo Reparador", "ld.jpg", NULL, NULL,
                    NULL, NoText, NoTabs, NULL, NULL)
PageNoImage == Page(FALSE, NULL, NULL, NULL, NULL,
                    "Shampoo Reparador", NoText, NoTabs, NULL, NULL)
PageConcat  == Page(TRUE, "Shampoo Reparador", "ld.jpg", NULL, NULL,
                    NULL, RawConcat, NoTabs, NULL, NULL)
PageShort   == Page(FALSE, NULL, NULL, NULL, NULL,
                    "Shampoo Reparador", RawShort, NoTabs, "sel.jpg", NULL)
PageOg      == Page(FALSE, NULL, NULL, NULL, NULL,
                    "Shampoo Reparador", NoText,
                    Soup(<<ButtonIngredientes, HeadingComposicaoCompleta>>, <<>>),
                    NULL, "og.jpg")
PageEmpty   == Page(FALSE, NULL, NULL, NULL, NULL,
                    NULL, NoText, NoTabs, NULL, NULL)
PageBadPrice == Page(TRUE, "Shampoo Reparador", "ld.jpg", NULL, "sob consulta",
                    NULL, NoText, NoTabs, NULL, NULL)

Pages == {PageFull, PageCatalog, PageNoImage, PageConcat, PageShort, PageOg,
          PageEmpty, PageBadPrice}

\* float(offers["price"]) raises ValueError
PriceParses(price) == price # "sob consulta"

\* any(g in name_lower for g in GARBAGE_NAMES)
NameIsGarbage(name) == name \in {"Erro 404", "Page not found"}

\* is_hair_relevant_by_keywords(product_name, url): a hair keyword and no
\* exclusion keyword in name + url
HairKeywordReason(name, url) ==
    IF name = "Shampoo Reparador" /\ "corpo" \notin Range(url.segs)
    THEN "keyword 'shampoo' found" ELSE ""

-----------------------------------------------------------------------------
(* src/extraction/deterministic.py *)

Ev(field_name, method) == [field_name |-> field_name, extraction_method |-> method]

\* name / image selectors are tried only when the caller passes them
extract_by_selectors(pg, with_name_selectors, with_image_selectors) ==
    LET name     == IF with_name_selectors THEN pg.sel_name ELSE NULL
        inci_raw == IF pg.sel_inci # NoText THEN pg.sel_inci
                    ELSE _extract_inci_by_tab_labels(pg.tab_inci)
        image    == IF with_image_selectors THEN pg.sel_image ELSE NULL
    IN  [name |-> name, inci_raw |-> inci_raw, image |-> image]

\* the parameters of extract_product_deterministic
DetParams == {"html", "url", "inci_selectors", "name_selectors"}

\* the call raises TypeError when a keyword names no parameter
BindsKeywords(keywords) == keywords \subseteq DetParams

\* The dict extract_product_deterministic returns, from what JSON-LD gave
\* (name_ld, image_ld) and what extract_by_selectors gave (sel).
\* raised: float(offers["price"]) raised ValueError.
DetResult(pg, name_ld, image_ld, sel) ==
    [raised |-> pg.ld /\ pg.ld_price # NULL /\ ~PriceParses(pg.ld_price),
     product_name |-> IF name_ld = NULL /\ sel.name # NULL THEN sel.name
                      ELSE name_ld,
     image_url_main |-> IF image_ld # NULL THEN image_ld
                        ELSE IF sel.image # NULL THEN sel.image
                        ELSE pg.og_image,
     inci_raw |-> sel.inci_raw,
     description |-> IF pg.ld THEN pg.ld_desc ELSE NULL,
     price |-> IF pg.ld /\ pg.ld_price # NULL THEN pg.ld_price ELSE NULL,
     currency |-> IF pg.ld /\ pg.ld_price # NULL THEN "BRL" ELSE NULL,
     evidence |->
        (IF name_ld # NULL THEN <<Ev("product_name", "jsonld")>> ELSE <<>>)
        \o (IF image_ld # NULL THEN <<Ev("image_url_main", "jsonld")>> ELSE <<>>)
        \o (IF name_ld = NULL /\ sel.name # NULL
            THEN <<Ev("product_name", "html_selector")>> ELSE <<>>)
        \o (IF sel.inci_raw # NoText
            THEN <<Ev("inci_ingredients", "html_selector")>> ELSE <<>>),
     extraction_method |-> IF pg.ld THEN "jsonld"
                           ELSE IF sel.inci_raw # NoText THEN "html_selector"
                           ELSE NULL]

JsonLdName(pg) == IF pg.ld THEN pg.ld_name ELSE NULL
JsonLdImage(pg) == IF pg.ld THEN pg.ld_image ELSE NULL

extract_product_deterministic(pg, url) ==
    DetResult(pg, JsonLdName(pg), JsonLdImage(pg),
              extract_by_selectors(pg, JsonLdName(pg) = NULL,
                                   JsonLdImage(pg) = NULL))

-----------------------------------------------------------------------------
(* src/core/models.py: ProductExtraction, QAResult *)

ProductExtraction(brand_slug, product_name, product_url, image_url_main, hair_relevance_reason, inci_ingredients, description, price, currency, confidence, extraction_method, evidence) ==
    [brand_slug |-> brand_slug, product_name |-> product_name,
     product_url |-> product_url, image_url_main |-> image_url_main,
     hair_relevance_reason |-> hair_relevance_reason,
     inci_ingredients |-> inci_ingredients, description |-> description,
     price |-> price, currency |-> currency, confidence |-> confidence,
     extraction_method |-> extraction_method, evidence |-> evidence]

QAResult(status, passed, checks_passed, checks_failed, rejection_reason) ==
    [status |-> status, passed |-> passed, checks_passed |-> checks_passed,
     checks_failed |-> checks_failed, rejection_reason |-> rejection_reason]

-----------------------------------------------------------------------------
(* src/core/qa_gate.py *)

\* QAConfig.min_confidence = 0.80, in hundredths
MinConfidence == 80

\* a check code is the sequence of its ":"-separated parts
Codes(names) == [i \in 1..Len(names) |-> <<names[i]>>]

\* "; ".join(failed) and the ingredient reasons alike are sequences of parts;
\* None and "" are <<>>
\* the four minimal checks: the names that passed and those that failed
MinimalChecks(product, allowed_domains) ==
    [passed |->
        (IF NameIsGarbage(product.product_name) THEN <<>> ELSE <<"name_valid">>)
        \o (IF _check_domain(product.product_url, allowed_domains)
            THEN <<"domain_valid">> ELSE <<>>)
        \o (IF product.image_url_main # NULL THEN <<"has_image">> ELSE <<>>)
        \o (IF product.hair_relevance_reason # "" THEN <<"hair_relevant">> ELSE <<>>),
     failed |->
        (IF NameIsGarbage(product.product_name) THEN <<"name_garbage">> ELSE <<>>)
        \o (IF _check_domain(product.product_url, allowed_domains)
            THEN <<>> ELSE <<"domain_unofficial">>)
        \o (IF product.image_url_main # NULL THEN <<>> ELSE <<"no_image">>)
        \o (IF product.hair_relevance_reason # ""
            THEN <<>> ELSE <<"no_hair_relevance">>)]

\* a gate that does not look at the confidence
FullChecksNoConfidence(product, passed, inci_result) ==
    IF ~inci_result.valid
    THEN QAResult("quarantined", FALSE, passed,
                  <<(<<"inci_invalid">> \o inci_result.rejection_reason)>>,
                  inci_result.rejection_reason)
    ELSE QAResult("verified_inci", TRUE,
                  passed \o <<"inci_valid", "confidence_ok">>, <<>>, <<>>)

\* the full ingredient checks, inci_result being validate_inci_list's answer
FullChecks(product, passed, inci_result) ==
    IF ~inci_result.valid
    THEN QAResult("quarantined", FALSE, passed,
                  <<(<<"inci_invalid">> \o inci_result.rejection_reason)>>,
                  inci_result.rejection_reason)
    ELSE IF product.confidence < MinConfidence
    THEN QAResult("quarantined", FALSE, Append(passed, "inci_valid"),
                  Codes(<<"low_confidence">>), <<"confidence_below_min">>)
    ELSE QAResult("verified_inci", TRUE,
                  passed \o <<"inci_valid", "confidence_ok">>, <<>>, <<>>)

\* run_product_qa after the minimal checks m
Gate(product, m) ==
    IF m.failed # <<>>
    THEN QAResult("quarantined", FALSE, m.passed, Codes(m.failed), m.failed)
    ELSE IF product.inci_ingredients = None \/ product.inci_ingredients = Some(<<>>)
    THEN QAResult("catalog_only", TRUE, m.passed, <<>>, <<>>)
    ELSE FullChecks(product, m.passed,
                    validate_inci_list(product.inci_ingredients[1]))

\* a gate that takes every host for an allowed one
GateIgnoringDomain(product, allowed_domains) ==
    Gate(product, MinimalChecks(product, <<product.product_url.host>>))

run_product_qa(product, allowed_domains) ==
    Gate(product, MinimalChecks(product, allowed_domains))

-----------------------------------------------------------------------------
(* src/core/browser.py: BrowserClient.fetch_page *)

\* What one fetch does: the navigation succeeds ("ok"), the navigation
\* times out or fails ("timeout": the exception is swallowed and the content
\* of the browser page as it stands, html, is returned), or the browser itself
\* fails ("raise": _ensure_browser or page.content() raises).
Fetch(outcome, html) == [outcome |-> outcome, html |-> html]

fetch_page(f) == [raised |-> f.outcome = "raise", html |-> f.html]

-----------------------------------------------------------------------------
(* src/pipeline/coverage_engine.py: CoverageEngine._extract_product *)

\* keywords of the call at coverage_engine.py:156
EngineCallKeywords == {"html", "url", "inci_selectors", "name_selectors",
                       "image_selectors"}

\* keywords of the call at scripts/amend_full_extraction.py:153
ScriptCallKeywords == {"html", "url", "inci_selectors", "name_selectors"}

\* What the LLM fallback can do.  usable: a client is configured, its budget
\* allows a call and the blueprint enables the fallback.
Llm(usable, raises, inci, description) ==
    [usable |-> usable, raises |-> raises, inci |-> inci,
     description |-> description]

NoLlm == Llm(FALSE, FALSE, NoText, NULL)

(* src/pipeline/cost_tracker.py: CostTracker; src/core/llm.py: LLMClient *)
CostTracker(max_calls) == [max_calls |-> max_calls, total_calls |-> 0]

\* LLMClient.can_call of the engine's client; FALSE stands for "no client"
\* too, where the code does not ask
ClientCanCall(llm_client) ==
    llm_client # None /\ llm_client[1].total_calls < llm_client[1].max_calls

\* CostTracker.record_call
record_call(llm_client) ==
    Some([llm_client[1] EXCEPT !.total_calls = @ + 1])

\* the two conditions in front of _try_llm_extraction (lines 193-194)
FallbackUsable(llm_client, use_llm_fallback) ==
    ClientCanCall(llm_client) /\ use_llm_fallback

\* raised: NULL or the exception that leaves _extract_product;
\* product: None or Some(ProductExtraction)
Extracted(raised, product) == [raised |-> raised, product |-> product]

\* relevant, reason = is_hair_relevant_by_keywords(...); if not relevant: ...
HairReason(product_name, url) ==
    IF HairKeywordReason(product_name, url) = "" THEN "url_classified_as_product"
    ELSE HairKeywordReason(product_name, url)

\* "if inci_raw: ... if inci_result.valid": the page's list was accepted
InciFound(det_result, inci_result) ==
    det_result.inci_raw # NoText /\ inci_result.valid

\* confidence after the INCI processing block
DetConfidence(det_result, inci_result) ==
    IF det_result.inci_raw = NoText THEN 0
    ELSE IF inci_result.valid THEN 90 ELSE 30

\* the LLM fallback is entered and _try_llm_extraction returns a result
LlmAnswers(det_result, inci_result, llm) ==
    /\ ~InciFound(det_result, inci_result)
    /\ llm.usable /\ ~llm.raises
    /\ (llm.inci # NoText \/ llm.description # NULL)

\* the LLM's list was accepted (inci_val validates it)
LlmInci(det_result, inci_result, llm, inci_val) ==
    /\ LlmAnswers(det_result, inci_result, llm)
    /\ llm.inci # NoText /\ inci_val.valid

\* The ProductExtraction _extract_product builds (lines 168-231)
EngineExtraction(url, brand_slug, det_result, inci_result, llm, inci_val) ==
    ProductExtraction(
        brand_slug, det_result.product_name, url, det_result.image_url_main,
        HairReason(det_result.product_name, url),
        IF LlmInci(det_result, inci_result, llm, inci_val)
        THEN Some(inci_val.cleaned)
        ELSE IF InciFound(det_result, inci_result) THEN Some(inci_result.cleaned)
        ELSE None,
        IF LlmAnswers(det_result, inci_result, llm) /\ det_result.description = NULL
        THEN llm.description ELSE det_result.description,
        det_result.price, det_result.currency,
        IF LlmInci(det_result, inci_result, llm, inci_val) THEN 85
        ELSE DetConfidence(det_result, inci_result),
        IF LlmInci(det_result, inci_result, llm, inci_val) THEN "llm_grounded"
        ELSE det_result.extraction_method,
        det_result.evidence)

\* _extract_product from line 164 on, det_result being the extractor's dict
AfterDeterministic(url, brand_slug, det_result, llm) ==
    IF det_result.raised
    THEN Extracted("ValueError: could not convert string to float", None)
    ELSE IF det_result.product_name = NULL THEN Extracted(NULL, None)
    ELSE Extracted(NULL, Some(EngineExtraction(
             url, brand_slug, det_result,
             extract_and_validate_inci(det_result.inci_raw), llm,
             extract_and_validate_inci(llm.inci))))

\* _extract_product reaches the LLM fallback, the request is answered and
\* extract_structured records the call
LlmRecordedAfter(det_result, llm) ==
    /\ ~det_result.raised
    /\ det_result.product_name # NULL
    /\ ~InciFound(det_result, extract_and_validate_inci(det_result.inci_raw))
    /\ llm.usable /\ ~llm.raises

LlmRecorded(url, has_browser, f, llm) ==
    /\ has_browser
    /\ ~fetch_page(f).raised
    /\ BindsKeywords(EngineCallKeywords)
    /\ LlmRecordedAfter(extract_product_deterministic(fetch_page(f).html, url),
                        llm)

_extract_product(url, brand_slug, has_browser, f, llm) ==
    IF ~has_browser THEN Extracted(NULL, None)
    ELSE IF fetch_page(f).raised THEN Extracted(NULL, None)
    ELSE IF ~BindsKeywords(EngineCallKeywords)
    THEN Extracted("TypeError: unexpected keyword argument 'image_selectors'", None)
    ELSE AfterDeterministic(url, brand_slug,
             extract_product_deterministic(fetch_page(f).html, url), llm)

-----------------------------------------------------------------------------
(* src/core/label_engine.py *)

\* A text is the sequence of its lower-cased words; a keyword is a sequence of
\* words too.  re.compile(r'\b' + re.escape(kw) + r'\b', re.IGNORECASE).search
\* finds the keyword when its words stand next to each other in the text.
HasKeyword(text, kw) ==
    \E i \in 1..(Len(text) - Len(kw) + 1) : SubSeq(text, i, i + Len(kw) - 1) = kw

\* seal_keywords as load_seal_keywords returns it: one entry per seal name (the
\* keys of a dict), in file order
SealKeywords ==
    << [seal |-> "cruelty_free",
        keywords |-> << <<"cruelty", "free">>, <<"cruelty-free">> >>],
       [seal |-> "low_poo", keywords |-> << <<"low", "poo">>, <<"low-poo">> >>],
       [seal |-> "silicone_free",
        keywords |-> << <<"silicone", "free">>, <<"silicone-free">>,
                        <<"sem", "silicone">> >>],
       [seal |-> "sulfate_free",
        keywords |-> << <<"sulfate", "free">>, <<"sulfate-free">>,
                        <<"sem", "sulfato">> >>],
       [seal |-> "vegan",
        keywords |-> << <<"vegan">>, <<"vegano">>, <<"vegana">> >>] >>

\* silicones, low_poo_prohibited, no_poo_prohibited as load_prohibited_list
\* returns them
Silicones == {"dimethicone", "amodimethicone", "cyclomethicone",
              "cyclopentasiloxane"}
LowPooProhibited == {"sodium lauryl sulfate", "sodium laureth sulfate",
                     "ammonium lauryl sulfate"}
NoPooProhibited == LowPooProhibited \cup {"cocamidopropyl betaine",
                                          "decyl glucoside"}
PARABEN_INDICATORS == {"methylparaben", "ethylparaben", "propylparaben",
                       "butylparaben"}
PETROLATUM_INDICATORS == {"petrolatum", "paraffinum liquidum", "mineral oil"}
DYE_INDICATORS == {"ci 1", "fd&c", "tartrazine"}

\* the names of those lists that are substrings of a lower-cased ingredient
NamesIn(ingredient) ==
    CASE ingredient = "dimethicone" -> {"dimethicone"}
      [] ingredient = "amodimethicone" -> {"dimethicone", "amodimethicone"}
      [] ingredient = "sodium laureth sulfate" -> {"sodium laureth sulfate"}
      [] ingredient = "cocamidopropyl betaine" -> {"cocamidopropyl betaine"}
      [] ingredient = "methylparaben" -> {"methylparaben"}
      [] ingredient = "paraffinum liquidum" -> {"paraffinum liquidum"}
      [] ingredient = "ci 19140" -> {"ci 1"}
      [] OTHER -> {}

\* any(name in ingredient for ingredient in inci_lower for name in prohibited)
_has_prohibited(inci_lower, prohibited) ==
    \E i \in 1..Len(inci_lower) : NamesIn(inci_lower[i]) \cap prohibited # {}

\* a DYE_INDICATORS entry, or "ci" followed by four or five digits
_has_dye(inci_lower) ==
    \E i \in 1..Len(inci_lower) :
        \/ NamesIn(inci_lower[i]) \cap DYE_INDICATORS # {}
        \/ inci_lower[i] = "ci 77891"

RECURSIVE JoinWords(_)
\* " ".join(benefits_claims)
JoinWords(texts) ==
    IF texts = <<>> THEN <<>> ELSE Head(texts) \o JoinWords(Tail(texts))

\* the (field_name, text) pairs of the fields that are not None, in scan order
_build_text_fields(description, product_name, benefits_claims, usage_instructions) ==
    (IF description # None
     THEN << [field_name |-> "description", text |-> description[1]] >>
     ELSE <<>>)
    \o (IF product_name # None
        THEN << [field_name |-> "product_name", text |-> product_name[1]] >>
        ELSE <<>>)
    \o (IF benefits_claims # None
        THEN << [field_name |-> "benefits_claims",
                 text |-> JoinWords(benefits_claims[1])] >>
        ELSE <<>>)
    \o (IF usage_instructions # None
        THEN << [field_name |-> "usage_instructions",
                 text |-> usage_instructions[1]] >>
        ELSE <<>>)

\* some pattern of the seal matches the text
SealIn(entry, text) ==
    \E k \in 1..Len(entry.keywords) : HasKeyword(text, entry.keywords[k])

LabelEvidence(seal, extraction_method) ==
    [field_name |-> "label:" \o seal, extraction_method |-> extraction_method]

\* what detect has gathered so far
Gathered(detected, inferred, sources, evidence) ==
    [detected |-> detected, inferred |-> inferred, sources |-> sources,
     evidence |-> evidence]

\* sources.append(source) unless it is there
WithSource(sources, source) ==
    IF source \in Range(sources) THEN sources ELSE Append(sources, source)

RECURSIVE KeywordLoop(_, _, _)
\* Method 1: for each seal from the i-th on, the first text field one of its
\* patterns matches adds the seal to detected, once
KeywordLoop(i, text_fields, g) ==
    IF i > Len(SealKeywords) THEN g
    ELSE KeywordLoop(i + 1, text_fields,
           IF \E f \in 1..Len(text_fields) :
                 SealIn(SealKeywords[i], text_fields[f].text)
           THEN Gathered(Append(g.detected, SealKeywords[i].seal), g.inferred,
                         WithSource(g.sources, "official_text"),
                         Append(g.evidence,
                                LabelEvidence(SealKeywords[i].seal,
                                              "text_keyword")))
           ELSE g)

RECURSIVE ImageLoopNoSkip(_, _, _)
\* an image scan that does not skip the seals detected already
ImageLoopNoSkip(i, image_texts, g) ==
    IF i > Len(SealKeywords) THEN g
    ELSE ImageLoopNoSkip(i + 1, image_texts,
           IF \E t \in 1..Len(image_texts) :
                   SealIn(SealKeywords[i], image_texts[t])
           THEN Gathered(Append(g.detected, SealKeywords[i].seal), g.inferred,
                         WithSource(g.sources, "html_img_element"),
                         Append(g.evidence,
                                LabelEvidence(SealKeywords[i].seal,
                                              "html_img_element")))
           ELSE g)

RECURSIVE ImageLoop(_, _, _)
\* Method 2: for each seal from the i-th on that is not in detected yet, the
\* first image text one of its patterns matches adds the seal to detected
ImageLoop(i, image_texts, g) ==
    IF i > Len(SealKeywords) THEN g
    ELSE ImageLoop(i + 1, image_texts,
           IF /\ SealKeywords[i].seal \notin Range(g.detected)
              /\ \E t \in 1..Len(image_texts) :
                   SealIn(SealKeywords[i], image_texts[t])
           THEN Gathered(Append(g.detected, SealKeywords[i].seal), g.inferred,
                         WithSource(g.sources, "html_img_element"),
                         Append(g.evidence,
                                LabelEvidence(SealKeywords[i].seal,
                                              "html_img_element")))
           ELSE g)

\* the seals Method 3 can infer, in the order of its tests, each with the
\* condition on the ingredient list that infers it
InferenceRules(inci_lower) ==
    << [seal |-> "silicone_free",
        holds |-> ~_has_prohibited(inci_lower, Silicones)],
       [seal |-> "sulfate_free",
        holds |-> ~_has_prohibited(inci_lower, LowPooProhibited)],
       [seal |-> "paraben_free",
        holds |-> ~_has_prohibited(inci_lower, PARABEN_INDICATORS)],
       [seal |-> "petrolatum_free",
        holds |-> ~_has_prohibited(inci_lower, PETROLATUM_INDICATORS)],
       [seal |-> "dye_free", holds |-> ~_has_dye(inci_lower)],
       [seal |-> "low_poo",
        holds |-> ~_has_prohibited(inci_lower, LowPooProhibited)],
       [seal |-> "no_poo",
        holds |-> /\ ~_has_prohibited(inci_lower, NoPooProhibited)
                  /\ ~_has_prohibited(inci_lower, Silicones)] >>

RECURSIVE InferLoop(_, _, _)
\* Method 3: a rule that holds infers its seal unless the seal is in detected
InferLoop(i, rules, g) ==
    IF i > Len(rules) THEN g
    ELSE InferLoop(i + 1, rules,
           IF rules[i].holds /\ rules[i].seal \notin Range(g.detected)
           THEN Gathered(g.detected, Append(g.inferred, rules[i].seal),
                         g.sources,
                         Append(g.evidence,
                                LabelEvidence(rules[i].seal, "inci_inference")))
           ELSE g)

\* confidence in hundredths
_compute_confidence(detected, inferred) ==
    IF detected # <<>> /\ inferred # <<>> THEN 90
    ELSE IF detected # <<>> THEN 80
    ELSE IF inferred # <<>> THEN 50
    ELSE 0

LabelResult(g) ==
    [detected |-> g.detected, inferred |-> g.inferred,
     confidence |-> _compute_confidence(g.detected, g.inferred),
     sources |-> IF g.inferred # <<>> THEN WithSource(g.sources, "inci_analysis")
                 ELSE g.sources,
     manually_verified |-> FALSE, manually_overridden |-> FALSE,
     evidence |-> g.evidence]

\* LabelEngine.detect; a field that is None is None here, a given one Some(it);
\* inci_ingredients holds the lower-cased names
detect(description, product_name, benefits_claims, usage_instructions, inci_ingredients, image_texts) ==
    LET text == KeywordLoop(1, _build_text_fields(description, product_name,
                                   benefits_claims, usage_instructions),
                            Gathered(<<>>, <<>>, <<>>, <<>>))
        image == IF image_texts # None /\ image_texts # Some(<<>>)
                 THEN ImageLoop(1, image_texts[1], text) ELSE text
        inci == IF inci_ingredients # None
                THEN InferLoop(1, InferenceRules(inci_ingredients[1]), image)
                ELSE image
    IN  LabelResult(inci)

\* LabelResult.to_dict(): the result without its evidence
to_dict(result) ==
    [detected |-> result.detected, inferred |-> result.inferred,
     confidence |-> result.confidence, sources |-> result.sources,
     manually_verified |-> result.manually_verified,
     manually_overridden |-> result.manually_overridden]

-----------------------------------------------------------------------------
(* src/storage/repository.py *)

\* the row a ProductORM holds once the fields of an extraction are written on
\* a new row: product_labels, which upsert_product never writes, has the
\* column's default
ProductRow(id, brand_slug, created_at, updated_at, extraction, qa) ==
    [id |-> id, brand_slug |-> brand_slug,
     product_name |-> extraction.product_name,
     product_url |-> extraction.product_url,
     image_url_main |-> extraction.image_url_main,
     verification_status |-> qa.status,
     hair_relevance_reason |-> extraction.hair_relevance_reason,
     inci_ingredients |-> extraction.inci_ingredients,
     description |-> extraction.description,
     price |-> extraction.price, currency |-> extraction.currency,
     confidence |-> extraction.confidence,
     extraction_method |-> extraction.extraction_method,
     product_labels |-> None,
     created_at |-> created_at, updated_at |-> updated_at]

\* query(ProductORM).filter(product_url == url).first(): 0 when there is none
FindProduct(products, url) ==
    IF \E i \in 1..Len(products) : products[i].product_url = url
    THEN CHOOSE i \in 1..Len(products) :
           /\ products[i].product_url = url
           /\ \A j \in 1..(i - 1) : products[j].product_url # url
    ELSE 0

\* query(QuarantineDetailORM).filter(product_id == id).first()
FindQuarantine(details, product_id) ==
    IF \E i \in 1..Len(details) : details[i].product_id = product_id
    THEN CHOOSE i \in 1..Len(details) :
           /\ details[i].product_id = product_id
           /\ \A j \in 1..(i - 1) : details[j].product_id # product_id
    ELSE 0

\* a repository that adds a detail row at every quarantined upsert
AlwaysInsertQuarantine(details, product_id, qa) ==
    IF qa.status = "quarantined" /\ qa.rejection_reason # <<>>
    THEN Append(details,
                [product_id |-> product_id,
                 rejection_reason |-> qa.rejection_reason,
                 rejection_code |-> IF qa.checks_failed # <<>>
                                    THEN qa.checks_failed[1] ELSE <<>>,
                 review_status |-> "pending",
                 reviewer_notes |-> NULL,
                 reviewed_at |-> None])
    ELSE details

\* a repository that reopens the review of a product quarantined again
SaveQuarantineReopened(details, product_id, qa) ==
    IF qa.status = "quarantined" /\ qa.rejection_reason # <<>>
    THEN LET q == FindQuarantine(details, product_id)
         IN  IF q # 0
             THEN [details EXCEPT ![q].rejection_reason = qa.rejection_reason,
                                  ![q].review_status = "pending",
                                  ![q].reviewer_notes = NULL]
             ELSE AlwaysInsertQuarantine(details, product_id, qa)
    ELSE details

\* The quarantine-detail part of upsert_product
SaveQuarantine(details, product_id, qa) ==
    IF qa.status = "quarantined" /\ qa.rejection_reason # <<>>
    THEN LET q == FindQuarantine(details, product_id)
         IN  IF q # 0
             THEN [details EXCEPT ![q].rejection_reason = qa.rejection_reason]
             ELSE Append(details,
                         [product_id |-> product_id,
                          rejection_reason |-> qa.rejection_reason,
                          rejection_code |-> IF qa.checks_failed # <<>>
                                             THEN qa.checks_failed[1] ELSE <<>>,
                          review_status |-> "pending",
                          reviewer_notes |-> NULL,
                          reviewed_at |-> None])
    ELSE details

\* a repository that keeps the stored ingredient list when the extraction
\* brings none
SaveProductKeepInci(products, extraction, qa, t) ==
    LET e == FindProduct(products, extraction.product_url)
    IN  IF e # 0
        THEN [products EXCEPT ![e] =
                 [ProductRow(products[e].id, products[e].brand_slug,
                            products[e].created_at, t,
                            [extraction EXCEPT !.inci_ingredients =
                                IF @ = None THEN products[e].inci_ingredients
                                ELSE @],
                            qa)
                  EXCEPT !.product_labels = products[e].product_labels]]
        ELSE Append(products,
                    ProductRow(Len(products) + 1, extraction.brand_slug, t, t,
                               extraction, qa))

\* The product part of upsert_product at time t: overwrite the row of the
\* same product_url, or add the row ProductORM(...) builds, under a fresh id
\* (upsert_product below tells when that call raises instead)
SaveProduct(products, extraction, qa, t) ==
    LET e == FindProduct(products, extraction.product_url)
    IN  IF e # 0
        THEN [products EXCEPT ![e] =
                 [ProductRow(products[e].id, products[e].brand_slug,
                             products[e].created_at, t, extraction, qa)
                  EXCEPT !.product_labels = products[e].product_labels]]
        ELSE Append(products,
                    ProductRow(Len(products) + 1, extraction.brand_slug, t, t,
                               extraction, qa))

\* a repository that replaces the evidence of the product by the new entries
ReplaceEvidence(evidence, product_id, extraction) ==
    SelectSeq(evidence, LAMBDA row : row.product_id # product_id)
        \o [i \in 1..Len(extraction.evidence) |->
               [product_id |-> product_id,
                field_name |-> extraction.evidence[i].field_name,
                extraction_method |-> extraction.evidence[i].extraction_method]]

\* The evidence part of upsert_product
SaveEvidence(evidence, product_id, extraction) ==
    evidence \o [i \in 1..Len(extraction.evidence) |->
                    [product_id |-> product_id,
                     field_name |-> extraction.evidence[i].field_name,
                     extraction_method |-> extraction.evidence[i].extraction_method]]

\* upsert_product after the product row is written (products) under product_id
UpsertRest(db, products, product_id, extraction, qa) ==
    [products |-> products,
     evidence |-> SaveEvidence(db.evidence, product_id, extraction),
     quarantine_details |-> SaveQuarantine(db.quarantine_details, product_id, qa),
     product_id |-> product_id, raised |-> NULL]

\* the id of the row of a product_url
IdOf(products, url) == products[FindProduct(products, url)].id

\* lines 17-107 once the row is found or constructed
Written(db, extraction, qa, t) ==
    UpsertRest(db, SaveProduct(db.products, extraction, qa, t),
               IdOf(SaveProduct(db.products, extraction, qa, t),
                    extraction.product_url),
               extraction, qa)

\* the attributes of the class ProductORM (orm_models.py lines 27-56)
ProductORMAttributes ==
    {"id", "brand_slug", "product_name", "product_url", "image_url_main",
     "image_urls_gallery", "verification_status", "product_type_raw",
     "product_type_normalized", "gender_target", "hair_relevance_reason",
     "inci_ingredients", "description", "usage_instructions",
     "benefits_claims", "size_volume", "price", "currency", "line_collection",
     "variants", "product_labels", "confidence", "extraction_method",
     "extracted_at", "created_at", "updated_at", "evidence",
     "quarantine_detail"}

\* the keywords of the call ProductORM(...) at lines 48-72 of repository.py
InsertKeywords ==
    {"brand_slug", "product_name", "product_url", "image_url_main",
     "image_urls_gallery", "verification_status", "product_type_raw",
     "product_type_normalized", "product_category", "gender_target",
     "hair_relevance_reason", "inci_ingredients", "description",
     "usage_instructions", "benefits_claims", "size_volume", "price",
     "currency", "line_collection", "variants", "confidence",
     "extraction_method", "extracted_at"}

\* the constructor of a mapped class raises TypeError on a keyword that names
\* no attribute of the class; an assignment to such a name on a loaded row
\* (line 30) is a plain attribute and raises nothing
Constructs(keywords) == keywords \subseteq ProductORMAttributes

\* upsert_product on the store db at time t; product_id is what it returns,
\* raised the exception that leaves it: without a row of the product_url the
\* call ProductORM(...) raises before anything is added to the session
upsert_product(db, extraction, qa, t) ==
    IF FindProduct(db.products, extraction.product_url) = 0
          /\ ~Constructs(InsertKeywords)
    THEN [products |-> db.products, evidence |-> db.evidence,
          quarantine_details |-> db.quarantine_details,
          product_id |-> 0, raised |-> "TypeError"]
    ELSE Written(db, extraction, qa, t)

-----------------------------------------------------------------------------
(* src/discovery/url_classifier.py *)

\* What classify_url reads from one path segment.
\*   kitprefix  : it begins with kit- kit_ combo- combo_ bundle- bundle_ set- set_
\*   kitword    : it is kit, combo or bundle
\*   exclude    : it is an EXCLUDE_KEYWORDS entry
\*   nonproduct : without ".html" it is a NON_PRODUCT_PATHS entry
\*   category   : "/" + it + "/" is a CATEGORY_INDICATORS entry
\*   productind : it holds -<digits>ml, -<digits>g, -shampoo-, -condicionador-
\*                or -mascara-
\*   hairkw     : it holds one of the first 20 HAIR_KEYWORDS
\*   tokens     : len(it.split("-"))
SegInfo(seg) ==
    CASE seg = "shampoo-gold-black-reparador" ->
           [kitprefix |-> FALSE, kitword |-> FALSE, exclude |-> FALSE,
            nonproduct |-> FALSE, category |-> FALSE, productind |-> FALSE,
            hairkw |-> TRUE, tokens |-> 4]
      [] seg = "mascara-nutritiva-300ml" ->
           [kitprefix |-> FALSE, kitword |-> FALSE, exclude |-> FALSE,
            nonproduct |-> FALSE, category |-> FALSE, productind |-> TRUE,
            hairkw |-> FALSE, tokens |-> 3]
      [] seg = "condicionador-gold-black-nutritivo" ->
           [kitprefix |-> FALSE, kitword |-> FALSE, exclude |-> FALSE,
            nonproduct |-> FALSE, category |-> FALSE, productind |-> FALSE,
            hairkw |-> TRUE, tokens |-> 4]
      [] seg = "kit-combo" ->
           [kitprefix |-> TRUE, kitword |-> FALSE, exclude |-> FALSE,
            nonproduct |-> FALSE, category |-> FALSE, productind |-> FALSE,
            hairkw |-> FALSE, tokens |-> 2]
      [] seg = "corpo" ->
           [kitprefix |-> FALSE, kitword |-> FALSE, exclude |-> TRUE,
            nonproduct |-> FALSE, category |-> FALSE, productind |-> FALSE,
            hairkw |-> FALSE, tokens |-> 1]
      [] seg = "blog" ->
           [kitprefix |-> FALSE, kitword |-> FALSE, exclude |-> FALSE,
            nonproduct |-> TRUE, category |-> FALSE, productind |-> FALSE,
            hairkw |-> FALSE, tokens |-> 1]
      [] seg \in {"busca", "shampoo"} ->
           [kitprefix |-> FALSE, kitword |-> FALSE, exclude |-> FALSE,
            nonproduct |-> FALSE, category |-> TRUE, productind |-> FALSE,
            hairkw |-> seg = "shampoo", tokens |-> 1]
      [] OTHER ->
           [kitprefix |-> FALSE, kitword |-> FALSE, exclude |-> FALSE,
            nonproduct |-> FALSE, category |-> FALSE, productind |-> FALSE,
            hairkw |-> FALSE, tokens |-> 1]

\* "cgid=" in query or "category=" in query
QueryIsCategory(query) == query \in {"cgid=shampoo", "category=hair"}

\* re.search(product_url_pattern, lower) compiles the pattern: "(" is no
\* regular expression and re.search raises re.error on it
PatternCompiles(pattern) == pattern # "("

\* re.search(product_url_pattern, lower)
PatternMatches(pattern, url) ==
    pattern = "/p/[0-9]" /\ \E i \in 1..(Len(url.segs) - 1) : url.segs[i] = "p"

classify_url(url, product_url_pattern) ==
    LET segs == url.segs
        n    == Len(segs)
        I    == 1..n
        FollowedBySlash(i) == i < n \/ url.slash
        \* lower.count("/"): two of the scheme, one before each segment, the
        \* trailing one
        slashes == 2 + n + (IF url.slash THEN 1 ELSE 0)
        is_product == \E i \in I : SegInfo(segs[i]).productind \/ segs[i] = "p"
        present(i) == /\ SegInfo(segs[i]).category
                      /\ \/ FollowedBySlash(i)
                         \/ segs[i] = "busca" /\ i = n /\ url.query # ""
    IN  IF \E i \in I : \/ SegInfo(segs[i]).kitprefix
                        \/ SegInfo(segs[i]).kitword /\ FollowedBySlash(i)
        THEN "kit"
        ELSE IF \E i \in I : SegInfo(segs[i]).exclude THEN "non_hair"
        ELSE IF \E i \in I : SegInfo(segs[i]).nonproduct THEN "other"
        ELSE IF QueryIsCategory(url.query) THEN "category"
        ELSE IF \E i \in I :
                  /\ present(i)
                  /\ \/ SegInfo(segs[n]).category /\ segs[n] = segs[i]
                        /\ url.query = "" /\ FollowedBySlash(i)
                     \/ slashes <= 4 /\ n + 2 <= 4 /\ ~is_product
        THEN "category"
        ELSE IF product_url_pattern # NULL /\ ~PatternCompiles(product_url_pattern)
        THEN "raises re.error"
        ELSE IF product_url_pattern # NULL /\ PatternMatches(product_url_pattern, url)
        THEN "product"
        ELSE IF is_product THEN "product"
        ELSE IF \E i \in I : SegInfo(segs[i]).hairkw
        THEN IF n >= 2 THEN "product"
             ELSE IF n >= 1 /\ SegInfo(segs[1]).tokens >= 3 THEN "product"
             ELSE "category"
        ELSE "other"

-----------------------------------------------------------------------------
(* State *)

VARIABLES
    products,            \* rows of the products table, in insertion order
    evidence,            \* rows of the product_evidence table, in insertion order
    quarantine_details,  \* rows of the quarantine_details table; id = position
    brand_coverage,      \* rows of the brand_coverage table
    now,                 \* the clock: every operation that reads it finds
                         \* it later than the one before
    run,                 \* the call of process_brand in progress, or the last one
    last,                \* the latest upsert_product call and what it returned
    ops,                 \* number of operations called so far
    sessions,            \* the upsert_product calls that database sessions
                         \* of concurrent writers are in the middle of
    crawl                \* the call of DOMCrawlerAdapter.discover in progress

vars == <<products, evidence, quarantine_details, brand_coverage, now, run,
          last, ops, sessions, crawl>>

\* bounds of the exploration
MaxOps == 3
MaxLlmCalls == 1

Store == [products |-> products, evidence |-> evidence,
          quarantine_details |-> quarantine_details]

(* src/pipeline/report_generator.py: BrandReport *)
BrandReport(brand_slug) ==
    [brand_slug |-> brand_slug, discovered_total |-> 0, hair_total |-> 0,
     kits_total |-> 0, non_hair_total |-> 0, extracted_total |-> 0,
     verified_inci_total |-> 0, catalog_only_total |-> 0,
     quarantined_total |-> 0, errors |-> <<>>]

\* llm_client: None, or Some(the CostTracker of the engine's LLMClient);
\* use_llm_fallback: the blueprint's flag.
\* browser_open: the BrowserClient holds a launched browser (_browser is set);
\* repo_errors: how many repository calls of the run raised.
\* pc: "idle" before any call, "loop" inside the extraction loop, "finalize"
\* once the loop has ended, "returned" after process_brand returned, "raised"
\* after an exception left process_brand, "done" after the command's cleanup.
\* log: the URLs the loop has handled, each with the fetch made for it.
IdleRun ==
    [pc |-> "idle", n |-> 0, has_browser |-> FALSE, hair_urls |-> <<>>,
     idx |-> 0, report |-> BrandReport("amend"), log |-> <<>>,
     committed |-> FALSE, llm_client |-> None, use_llm_fallback |-> FALSE,
     browser_open |-> FALSE, repo_errors |-> 0]

\* the concurrent writers, each with a database session of its own
Writers == {1, 2}

\* pc: "idle", "queried" once the call has looked for the row of the
\* product_url (existing: the id it found, 0 for none), "done" once the call
\* has returned, "failed" once it has raised
IdleSession == [pc |-> "idle", extraction |-> None, qa |-> None, existing |-> 0]

\* pc: "idle" before discover is called, "loop" inside its while loop,
\* "returned" once it has returned result, "raised" once an exception has left it.
\* to_crawl: the queue of (url, depth); requests: the pages requested so far,
\* in order, each with its depth.
IdleCrawl ==
    [pc |-> "idle", config |-> None, to_crawl |-> <<>>, visited |-> {},
     all_urls |-> {}, requests |-> <<>>, result |-> {}]

\* fn, input, output: the pure function last applied, what it was given and
\* what it returned
NoCall == [extraction |-> None, qa |-> None, product_id |-> 0, repeat |-> FALSE,
           before |-> "none", fn |-> "none", input |-> None, output |-> None,
           raised |-> NULL]

Init ==
    /\ products = <<>>
    /\ evidence = <<>>
    /\ quarantine_details = <<>>
    /\ brand_coverage = <<>>
    /\ now = 0
    /\ run = IdleRun
    /\ last = NoCall
    /\ ops = 0
    /\ sessions = [s \in Writers |-> IdleSession]
    /\ crawl = IdleCrawl

\* the verification_status of the row of a product_url, "none" without a row
StatusOf(rows, url) ==
    IF FindProduct(rows, url) = 0 THEN "none"
    ELSE rows[FindProduct(rows, url)].verification_status

\* the ghost record of an upsert_product call: repeat tells that the call
\* before it, with no other write in between, had the same arguments; before
\* is the status the row of the product_url had when the call began
Call(extraction, qa, product_id) ==
    [NoCall EXCEPT
       !.extraction = Some(extraction), !.qa = Some(qa),
       !.product_id = product_id,
       !.repeat = last.extraction = Some(extraction) /\ last.qa = Some(qa),
       !.before = StatusOf(products, extraction.product_url)]

\* the ghost record of an upsert_product call that raised
Failed(extraction, raised) ==
    [NoCall EXCEPT !.fn = "upsert_product", !.input = Some(extraction),
                   !.raised = raised]

\* the tables become what upsert_product left (d); a call that raised has
\* written nothing
Stored(d, extraction, qa) ==
    /\ products' = d.products
    /\ evidence' = d.evidence
    /\ quarantine_details' = d.quarantine_details
    /\ last' = IF d.raised = NULL THEN Call(extraction, qa, d.product_id)
               ELSE Failed(extraction, d.raised)
    /\ now' = IF d.raised = NULL THEN now + 1 ELSE now

\* the store after upsert_product(extraction, qa) at the current time
Upsert(extraction, qa) ==
    Stored(upsert_product(Store, extraction, qa, now), extraction, qa)

\* qa_result = run_product_qa(...); repo.upsert_product(..., qa_result)
GateAndUpsert(extraction, allowed_domains) ==
    Upsert(extraction, run_product_qa(extraction, allowed_domains))

-----------------------------------------------------------------------------
(* scripts/amend_full_extraction.py: extract_single_product *)

\* BRAND and ALLOWED_DOMAINS of the script
BRAND == "amend"

\* the ProductExtraction the script builds (lines 160-192)
ScriptExtraction(url, det_result, inci_result) ==
    ProductExtraction(
        BRAND, det_result.product_name, url, det_result.image_url_main,
        HairReason(det_result.product_name, url),
        IF InciFound(det_result, inci_result) THEN Some(inci_result.cleaned)
        ELSE None,
        det_result.description, det_result.price, det_result.currency,
        DetConfidence(det_result, inci_result),
        det_result.extraction_method, det_result.evidence)

\* extract_single_product from line 160 on
ScriptAfterDeterministic(url, det_result) ==
    IF det_result.raised \/ det_result.product_name = NULL
    THEN UNCHANGED <<products, evidence, quarantine_details, last, now>>
    ELSE GateAndUpsert(
             ScriptExtraction(url, det_result,
                              extract_and_validate_inci(det_result.inci_raw)),
             AllowedDomains(BRAND))

extract_single_product(url, f) ==
    /\ ops < MaxOps
    /\ ops' = ops + 1
    /\ UNCHANGED <<crawl, brand_coverage, run, sessions>>
    /\ IF fetch_page(f).raised \/ ~BindsKeywords(ScriptCallKeywords)
       THEN UNCHANGED <<products, evidence, quarantine_details, last, now>>
       ELSE ScriptAfterDeterministic(url,
                extract_product_deterministic(fetch_page(f).html, url))

-----------------------------------------------------------------------------
(* src/api/routes/quarantine.py: approve_quarantined *)

\* an approval that also drops the labels of the product
ApprovedProductUnlabelled(row, t) ==
    [row EXCEPT !.verification_status = "verified_inci", !.updated_at = t,
                !.product_labels = None]

\* detail.product.verification_status = "verified_inci" and the commit: the
\* UPDATE of a row whose status changes also sets updated_at (the column's
\* onupdate, orm_models.py line 53); a row whose status is verified_inci
\* already is not written
ApprovedProduct(row, t) ==
    IF row.verification_status = "verified_inci" THEN row
    ELSE [row EXCEPT !.verification_status = "verified_inci", !.updated_at = t]

approve_quarantined(quarantine_id, notes) ==
    /\ ops < MaxOps
    /\ ops' = ops + 1
    /\ UNCHANGED <<crawl, evidence, brand_coverage, run, sessions>>
    /\ IF quarantine_id \notin 1..Len(quarantine_details)
       THEN \* 404
            UNCHANGED <<products, quarantine_details, last, now>>
       ELSE LET detail == quarantine_details[quarantine_id]
                p == detail.product_id
            IN  /\ quarantine_details' =
                     [quarantine_details EXCEPT
                        ![quarantine_id].review_status = "approved",
                        ![quarantine_id].reviewer_notes = notes,
                        ![quarantine_id].reviewed_at = Some(now)]
                /\ products' =
                     [products EXCEPT ![p] = ApprovedProduct(@, now)]
                /\ last' = NoCall
                /\ now' = now + 1

-----------------------------------------------------------------------------
(* src/cli/main.py: labels *)

\* the words of a stored text
Words(text) ==
    CASE text = "Shampoo Reparador" -> <<"shampoo", "reparador">>
      [] text = "Repara os fios" -> <<"repara", "os", "fios">>
      [] OTHER -> <<>>

\* a text column as detect receives it
TextArg(column) == IF column = NULL THEN None ELSE Some(Words(column))

\* field_name LIKE 'label:%'
IsLabelField(field_name) ==
    \E r \in Range(InferenceRules(<<>>)) \cup Range(SealKeywords) :
        field_name = "label:" \o r.seal

\* label_engine.detect(...) on the columns of a row; the command passes no
\* image_texts
DetectRow(row) ==
    detect(TextArg(row.description), TextArg(row.product_name), None, None,
           IF row.inci_ingredients = None THEN None
           ELSE Some([i \in 1..Len(row.inci_ingredients[1]) |->
                         row.inci_ingredients[1][i].base]),
           None)

\* repo.get_products(brand_slug=brand, limit=limit if limit > 0 else 10000):
\* the positions of the rows it returns
get_products(rows, brand_slug, limit) ==
    {i \in 1..Len(rows) :
        /\ rows[i].brand_slug = brand_slug
        /\ limit > 0 =>
              Cardinality({j \in 1..i : rows[j].brand_slug = brand_slug}) <= limit}

\* update_product_labels on each selected row
LabelledProducts(rows, selected, t) ==
    [i \in 1..Len(rows) |->
        IF i \in selected
        THEN [rows[i] EXCEPT !.product_labels = Some(to_dict(DetectRow(rows[i]))),
                             !.updated_at = t]
        ELSE rows[i]]

RECURSIVE LabelledEvidence(_, _, _, _)
\* for each selected row from the i-th on: the label evidence of the product
\* is deleted and the evidence entries of the new result are added
LabelledEvidence(rows, selected, i, ev) ==
    IF i > Len(rows) THEN ev
    ELSE LabelledEvidence(rows, selected, i + 1,
           IF i \in selected
           THEN SelectSeq(ev, LAMBDA r : ~(r.product_id = rows[i].id
                                            /\ IsLabelField(r.field_name)))
                \o [k \in 1..Len(DetectRow(rows[i]).evidence) |->
                       [product_id |-> rows[i].id,
                        field_name |-> DetectRow(rows[i]).evidence[k].field_name,
                        extraction_method |->
                            DetectRow(rows[i]).evidence[k].extraction_method]]
           ELSE ev)

\* the labels command
labels(brand, limit, dry_run) ==
    /\ ops < MaxOps
    /\ ops' = ops + 1
    /\ UNCHANGED <<crawl, quarantine_details, brand_coverage, run, sessions>>
    /\ IF get_products(products, brand, limit) = {} \/ dry_run
       THEN UNCHANGED <<products, evidence, last, now>>
       ELSE /\ products' = LabelledProducts(products,
                               get_products(products, brand, limit), now)
            /\ evidence' = LabelledEvidence(products,
                               get_products(products, brand, limit), 1, evidence)
            /\ last' = NoCall
            /\ now' = now + 1

-----------------------------------------------------------------------------
(* src/pipeline/coverage_engine.py: CoverageEngine.process_brand *)

\* report.extracted_total >= 5
StopMinExtracted == 5
\* STOP_THE_LINE_THRESHOLD = 0.50, in percent
StopThresholdPct == 50

\* report.failure_rate > STOP_THE_LINE_THRESHOLD
FailureRateAbove(report) ==
    /\ report.extracted_total # 0
    /\ report.quarantined_total * 100 > StopThresholdPct * report.extracted_total

StopTheLine(report) ==
    report.extracted_total >= StopMinExtracted /\ FailureRateAbove(report)

ErrorEntry(kind, url, message) ==
    [kind |-> kind, url |-> url, message |-> message]

RECURSIVE ClassifyLoopHairUncounted(_, _, _, _)
\* a classification loop that leaves hair_total alone
ClassifyLoopHairUncounted(discovered_urls, i, report, hair_urls) ==
    IF i > Len(discovered_urls) THEN [report |-> report, hair_urls |-> hair_urls]
    ELSE LET url == discovered_urls[i]
             url_type == classify_url(url, NULL)
         IN  IF url_type = "kit"
             THEN ClassifyLoopHairUncounted(discovered_urls, i + 1,
                     [report EXCEPT !.kits_total = @ + 1], hair_urls)
             ELSE IF url_type \in {"product", "category"}
             THEN ClassifyLoopHairUncounted(discovered_urls, i + 1, report,
                     IF url_type = "product" THEN Append(hair_urls, url)
                     ELSE hair_urls)
             ELSE ClassifyLoopHairUncounted(discovered_urls, i + 1,
                     [report EXCEPT !.non_hair_total = @ + 1], hair_urls)

RECURSIVE ClassifyLoop(_, _, _, _)
\* the classification loop over discovered_urls[i..]: the report counters and
\* hair_urls after it
ClassifyLoop(discovered_urls, i, report, hair_urls) ==
    IF i > Len(discovered_urls) THEN [report |-> report, hair_urls |-> hair_urls]
    ELSE LET url == discovered_urls[i]
             url_type == classify_url(url, NULL)
         IN  IF url_type = "kit"
             THEN ClassifyLoop(discovered_urls, i + 1,
                     [report EXCEPT !.kits_total = @ + 1], hair_urls)
             ELSE IF url_type = "non_hair"
             THEN ClassifyLoop(discovered_urls, i + 1,
                     [report EXCEPT !.non_hair_total = @ + 1], hair_urls)
             ELSE IF url_type \in {"product", "category"}
             THEN ClassifyLoop(discovered_urls, i + 1,
                     [report EXCEPT !.hair_total = @ + 1],
                     IF url_type = "product" THEN Append(hair_urls, url)
                     ELSE hair_urls)
             ELSE ClassifyLoop(discovered_urls, i + 1,
                     [report EXCEPT !.non_hair_total = @ + 1], hair_urls)

\* process_brand is called: the report is created and the URLs are classified
StartRun(brand_slug, discovered_urls, has_browser, llm_client, use_llm_fallback) ==
    /\ run.pc \in {"idle", "returned"}
    /\ ops < MaxOps
    /\ ops' = ops + 1
    /\ LET c == ClassifyLoop(discovered_urls, 1,
                  [BrandReport(brand_slug) EXCEPT
                      !.discovered_total = Len(discovered_urls)], <<>>)
       IN  run' = [pc |-> IF c.hair_urls = <<>> THEN "finalize" ELSE "loop",
                   n |-> run.n + 1, has_browser |-> has_browser,
                   hair_urls |-> c.hair_urls, idx |-> 0, report |-> c.report,
                   log |-> <<>>, committed |-> FALSE,
                   llm_client |-> llm_client,
                   use_llm_fallback |-> use_llm_fallback,
                   browser_open |-> has_browser /\ run.browser_open,
                   repo_errors |-> 0]
    /\ UNCHANGED <<crawl, products, evidence, quarantine_details, brand_coverage, now,
                   last, sessions>>

\* process_brand is called again on the same engine, for the next brand: the
\* engine's browser and LLM client are the ones the run before left, and no
\* line of process_brand resets the client's budget
NextBrand(brand_slug, discovered_urls) ==
    /\ run.pc = "returned"
    /\ StartRun(brand_slug, discovered_urls, run.has_browser, run.llm_client,
                run.use_llm_fallback)

\* the counters after a product with gate status st has been persisted
Counted(report, st) ==
    LET r == [report EXCEPT !.extracted_total = @ + 1]
    IN  IF st = "verified_inci" THEN [r EXCEPT !.verified_inci_total = @ + 1]
        ELSE IF st = "catalog_only" THEN [r EXCEPT !.catalog_only_total = @ + 1]
        ELSE IF st = "quarantined" THEN [r EXCEPT !.quarantined_total = @ + 1]
        ELSE r

\* the run once the loop has handled url with fetch f and the LLM client has
\* become llm_client; the log keeps what can_call answered when the
\* iteration began
Handled(url, f, llm_client) ==
    [run EXCEPT
       !.idx = @ + 1,
       !.llm_client = llm_client,
       !.browser_open = @ \/ (run.has_browser /\ f.outcome # "raise"),
       !.log = Append(@, [url |-> url,
                          fetch |-> IF run.has_browser THEN Some(f) ELSE None,
                          can_call |-> ClientCanCall(run.llm_client)]),
       !.pc = IF run.idx + 1 = Len(run.hair_urls) THEN "finalize" ELSE "loop"]

\* a loop that never brakes
AfterCountNoBrake(handled, report) == [handled EXCEPT !.report = report]

\* the stop-the-line check on the counters just updated
AfterCount(handled, report) ==
    IF StopTheLine(report)
    THEN [handled EXCEPT
            !.report = [report EXCEPT !.errors =
                           Append(@, ErrorEntry("stop_the_line", None,
                                                "failure_rate"))],
            !.pc = "finalize"]
    ELSE [handled EXCEPT !.report = report]

\* lines 68-90: the product is persisted and counted, the brake is checked
PersistAndCount(url, f, llm_client, product_data, qa_result) ==
    /\ Upsert(product_data, qa_result)
    /\ run' = IF upsert_product(Store, product_data, qa_result, now).raised = NULL
              THEN AfterCount(Handled(url, f, llm_client),
                              Counted(run.report, qa_result.status))
              ELSE [Handled(url, f, llm_client) EXCEPT !.report.errors =
                       Append(@, ErrorEntry("extraction_error", Some(url),
                                 upsert_product(Store, product_data, qa_result,
                                                now).raised))]

\* the body of the loop after _extract_product gave r
HandleResult(url, f, llm_client, r) ==
    IF r.raised # NULL
    THEN /\ run' = [Handled(url, f, llm_client) EXCEPT !.report.errors =
                      Append(@, ErrorEntry("extraction_error", Some(url),
                                           r.raised))]
         /\ UNCHANGED <<products, evidence, quarantine_details, last, now>>
    ELSE IF r.product = None
    THEN /\ run' = Handled(url, f, llm_client)
         /\ UNCHANGED <<products, evidence, quarantine_details, last, now>>
    ELSE PersistAndCount(url, f, llm_client, r.product[1],
             run_product_qa(r.product[1], AllowedDomains(run.report.brand_slug)))

\* one iteration of the extraction loop, for the next URL of hair_urls
ProcessUrl(f, llm) ==
    /\ run.pc = "loop"
    /\ llm.usable = FallbackUsable(run.llm_client, run.use_llm_fallback)
    /\ HandleResult(run.hair_urls[run.idx + 1], f,
           IF LlmRecorded(run.hair_urls[run.idx + 1], run.has_browser, f, llm)
           THEN record_call(run.llm_client) ELSE run.llm_client,
           _extract_product(run.hair_urls[run.idx + 1], run.report.brand_slug,
                            run.has_browser, f, llm))
    /\ UNCHANGED <<crawl, brand_coverage, ops, sessions>>

(* src/pipeline/report_generator.py: generate_coverage_stats *)
generate_coverage_stats(report) ==
    [brand_slug |-> report.brand_slug,
     discovered_total |-> report.discovered_total,
     hair_total |-> report.hair_total, kits_total |-> report.kits_total,
     non_hair_total |-> report.non_hair_total,
     extracted_total |-> report.extracted_total,
     verified_inci_total |-> report.verified_inci_total,
     catalog_only_total |-> report.catalog_only_total,
     quarantined_total |-> report.quarantined_total,
     status |-> "done"]

\* a repository that drops the coverage row instead of writing it
NoCoverageUpsert(coverage, stats, t) == coverage

(* src/storage/repository.py: upsert_brand_coverage at time t *)
upsert_brand_coverage(coverage, stats, t) ==
    LET row == [stats |-> stats, last_run |-> t]
    IN  IF \E i \in 1..Len(coverage) : coverage[i].stats.brand_slug = stats.brand_slug
        THEN [i \in 1..Len(coverage) |->
                 IF coverage[i].stats.brand_slug = stats.brand_slug
                    /\ \A j \in 1..(i - 1) :
                          coverage[j].stats.brand_slug # stats.brand_slug
                 THEN row ELSE coverage[i]]
        ELSE Append(coverage, row)

\* the end of process_brand: report.complete(), the coverage row, the commit
Finalize ==
    /\ run.pc = "finalize"
    /\ brand_coverage' = upsert_brand_coverage(brand_coverage,
                             generate_coverage_stats(run.report), now)
    /\ run' = [run EXCEPT !.pc = "returned", !.committed = TRUE]
    /\ now' = now + 1
    /\ UNCHANGED <<crawl, products, evidence, quarantine_details, last, ops, sessions>>

\* a process_brand that records the repository's error and returns
FinalizeAbsorbs ==
    /\ run.pc = "finalize"
    /\ run' = [run EXCEPT !.pc = "returned", !.repo_errors = @ + 1,
                          !.report.errors =
                              Append(@, ErrorEntry("extraction_error", None,
                                                   "OperationalError"))]
    /\ UNCHANGED <<crawl, products, evidence, quarantine_details, brand_coverage, now,
                   last, ops, sessions>>

\* the end of process_brand when upsert_brand_coverage or the commit raises
\* (lines 98-100 stand outside every try): the exception leaves process_brand,
\* nothing is committed and the session of the run is closed by its "with"
FinalizeFails ==
    /\ run.pc = "finalize"
    /\ run' = [run EXCEPT !.pc = "raised", !.repo_errors = @ + 1]
    /\ UNCHANGED <<crawl, products, evidence, quarantine_details, brand_coverage, now,
                   last, ops, sessions>>

(* src/cli/main.py: scrape, "Cleanup browser" *)
\* the loop over the brands has ended: browser.close() (taken to succeed)
CloseBrowser ==
    /\ run.pc \in {"idle", "returned"}
    /\ run' = [run EXCEPT !.pc = "done", !.browser_open = FALSE]
    /\ UNCHANGED <<crawl, products, evidence, quarantine_details, brand_coverage, now,
                   last, ops, sessions>>

-----------------------------------------------------------------------------
(* src/discovery/platform_adapters/dom_crawler.py: DOMCrawlerAdapter.discover *)

\* What discover is given: the adapter's browser (has_browser) and max_depth,
\* the config's entrypoints, max_pages and product_url_pattern, and the site:
\* links[url] are the links of allowed domains on the page of url, fails the
\* pages whose request raises.
CrawlConfig(has_browser, max_depth, entrypoints, max_pages, product_url_pattern, links, fails) ==
    [has_browser |-> has_browser, max_depth |-> max_depth,
     entrypoints |-> entrypoints, max_pages |-> max_pages,
     product_url_pattern |-> product_url_pattern, links |-> links,
     fails |-> fails]

\* the links of a page, {} for a page the site does not describe
LinksOf(config, url) ==
    IF url \in DOMAIN config.links THEN config.links[url] ELSE {}

\* the orders in which list(set(links)) can hold the links
Orders(links) ==
    {order \in [1..Cardinality(links) -> links] :
        \A i, j \in 1..Cardinality(links) : order[i] = order[j] => i = j}

\* a crawler that queues the category links of every page it crawls
MayQueueAtAnyDepth(depth, max_depth) == TRUE

\* if depth < self._max_depth
MayQueue(depth, max_depth) == depth < max_depth

RECURSIVE QueueLinks(_, _, _, _, _, _)
\* lines 79-83 over links[i..]: the category links that are not visited are
\* appended to to_crawl with depth + 1; a link on which classify_url raises
\* ends the loop, the exception being caught at line 84
QueueLinks(order, i, visited, depth, product_url_pattern, to_crawl) ==
    IF i > Len(order) THEN to_crawl
    ELSE IF order[i] \in visited
    THEN QueueLinks(order, i + 1, visited, depth, product_url_pattern, to_crawl)
    ELSE IF classify_url(order[i], product_url_pattern) = "raises re.error"
    THEN to_crawl
    ELSE QueueLinks(order, i + 1, visited, depth, product_url_pattern,
            IF classify_url(order[i], product_url_pattern) = "category"
            THEN Append(to_crawl, [url |-> order[i], depth |-> depth + 1])
            ELSE to_crawl)

\* while to_crawl and len(all_urls) < max_pages
CrawlGoesOn ==
    /\ crawl.to_crawl # <<>>
    /\ Cardinality(crawl.all_urls) < crawl.config[1].max_pages

\* discover is called (lines 52-64)
StartDiscover ==
    /\ crawl.pc = "idle"
    /\ crawl' = IF ~crawl.config[1].has_browser
                THEN [crawl EXCEPT !.pc = "returned"]
                ELSE [crawl EXCEPT
                        !.pc = "loop",
                        !.to_crawl = [i \in 1..Len(crawl.config[1].entrypoints) |->
                                         [url |-> crawl.config[1].entrypoints[i],
                                          depth |-> 0]]]
    /\ UNCHANGED <<products, evidence, quarantine_details, brand_coverage, now,
                   run, last, ops, sessions>>

\* one iteration of the while loop (lines 67-85)
CrawlStep ==
    /\ crawl.pc = "loop"
    /\ CrawlGoesOn
    /\ LET url == Head(crawl.to_crawl).url
           depth == Head(crawl.to_crawl).depth
           config == crawl.config[1]
           popped == [crawl EXCEPT !.to_crawl = Tail(@)]
           requested == [popped EXCEPT
                           !.visited = @ \cup {url},
                           !.requests = Append(@, [url |-> url, depth |-> depth])]
       IN  IF url \in crawl.visited
           THEN crawl' = popped
           ELSE IF url \in config.fails
           THEN crawl' = requested
           ELSE IF MayQueue(depth, config.max_depth)
           THEN \E order \in Orders(LinksOf(config, url)) :
                   crawl' = [requested EXCEPT
                               !.all_urls = @ \cup LinksOf(config, url),
                               !.to_crawl = QueueLinks(order, 1, requested.visited,
                                               depth, config.product_url_pattern, @)]
           ELSE crawl' = [requested EXCEPT
                            !.all_urls = @ \cup LinksOf(config, url)]
    /\ UNCHANGED <<products, evidence, quarantine_details, brand_coverage, now,
                   run, last, ops, sessions>>

\* list(all_urls)[:max_pages]: what it can hold
FirstUrls(all_urls, max_pages) ==
    {urls \in SUBSET all_urls :
        Cardinality(urls) = IF Cardinality(all_urls) < max_pages
                            THEN Cardinality(all_urls) ELSE max_pages}

\* the loop has ended: the URLs found are classified and returned (lines
\* 87-98); classify_url raising there leaves discover
FinishDiscover ==
    /\ crawl.pc = "loop"
    /\ ~CrawlGoesOn
    /\ \E urls \in FirstUrls(crawl.all_urls, crawl.config[1].max_pages) :
          crawl' =
             IF \E url \in urls :
                   classify_url(url, crawl.config[1].product_url_pattern)
                      = "raises re.error"
             THEN [crawl EXCEPT !.pc = "raised"]
             ELSE [crawl EXCEPT !.pc = "returned", !.result = urls]
    /\ UNCHANGED <<products, evidence, quarantine_details, brand_coverage, now,
                   run, last, ops, sessions>>

-----------------------------------------------------------------------------
(* Inputs and specifications *)

\* URLs the script's discovery hands to extract_single_product: it keeps
\* every link that contains "amend.com.br"
ScriptUrls == {UrlShampoo, UrlApex}

Fetches == {Fetch("ok", pg) : pg \in Pages}
           \cup {Fetch("timeout", PageEmpty), Fetch("timeout", PageFull),
                 Fetch("raise", PageEmpty)}

Llms == {NoLlm, Llm(TRUE, FALSE, RawValid5, "Repara os fios"),
         Llm(TRUE, TRUE, NoText, NULL)}

Notes == {"checked by hand"}

\* a short discovery result: a kit, a product, a body-care page, a blog page,
\* a category page
ShortList == <<UrlKit, UrlShampoo, UrlBody, UrlBlog, UrlCategory>>

\* what the fetches of a run over the short list can be
ShortFetches == {Fetch("ok", PageFull), Fetch("ok", PageConcat),
                 Fetch("raise", PageEmpty)}

\* what the fetches of a run over the long list can be
RunFetches == {Fetch("ok", PageNoImage), Fetch("ok", PageBadPrice),
               Fetch("timeout", PageEmpty), Fetch("raise", PageEmpty)}

\* a discovery result of six product pages
SixUrl(k) == Url(HostWww, <<"shampoo-gold-black-reparador", "p", k>>, FALSE, "")
LongList == <<SixUrl("1"), SixUrl("2"), SixUrl("3"), SixUrl("4"), SixUrl("5"),
              SixUrl("6")>>

\* how an engine is set up for a run: with or without a browser, with an LLM
\* client whose budget is 0 (exhausted from the start) or MaxLlmCalls, or
\* without one; with the blueprint's fallback flag
Setup(has_browser, llm_client, use_llm_fallback) ==
    [has_browser |-> has_browser, llm_client |-> llm_client,
     use_llm_fallback |-> use_llm_fallback]

Setups ==
    {Setup(TRUE, Some(CostTracker(0)), TRUE),
     Setup(TRUE, Some(CostTracker(MaxLlmCalls)), TRUE),
     Setup(FALSE, None, FALSE)}

\* the extractions upsert_product is applied to
ExtractionOf(url, det_result) ==
    ScriptExtraction(url, det_result,
                     extract_and_validate_inci(det_result.inci_raw))

\* The rows the tables hold when the operations begin. The products table was
\* filled before its class lost step with the repository (the migration
\* c3a7f1b2d456 backfills product_category on the rows it finds): a seed is
\* what lines 17-107 wrote, one call per product page, for product pages the
\* gate verified or quarantined
SeedWrite(url, pg) == [url |-> url, pg |-> pg]

SeedLists ==
    {<<>>, <<SeedWrite(UrlShampoo, PageNoImage)>>,
     <<SeedWrite(UrlShampoo, PageFull), SeedWrite(UrlApex, PageFull)>>}

EmptyStore == [products |-> <<>>, evidence |-> <<>>, quarantine_details |-> <<>>]

RECURSIVE Seeded(_, _)
\* the tables after the first n writes of the list writes, the k-th at time
\* k - 1
Seeded(writes, n) ==
    IF n = 0 THEN EmptyStore
    ELSE LET x == ExtractionOf(writes[n].url,
                      extract_product_deterministic(writes[n].pg, writes[n].url))
             d == Written(Seeded(writes, n - 1), x,
                          run_product_qa(x, AllowedDomains(BRAND)), n - 1)
         IN  [products |-> d.products, evidence |-> d.evidence,
              quarantine_details |-> d.quarantine_details]

\* the program with the tables of a seed
SeededInit(writes) ==
    /\ products = Seeded(writes, Len(writes)).products
    /\ evidence = Seeded(writes, Len(writes)).evidence
    /\ quarantine_details = Seeded(writes, Len(writes)).quarantine_details
    /\ brand_coverage = <<>>
    /\ now = Len(writes)
    /\ run = IdleRun
    /\ last = NoCall
    /\ ops = 0
    /\ sessions = [s \in Writers |-> IdleSession]
    /\ crawl = IdleCrawl

StoreInit == \E writes \in SeedLists : SeededInit(writes)

\* The store, its writers and a brand run over the short list
Next ==
    \/ \E url \in ScriptUrls, f \in Fetches : extract_single_product(url, f)
    \/ \E q \in 1..2, notes \in Notes : approve_quarantined(q, notes)
    \/ \E s \in Setups : StartRun("amend", ShortList, s.has_browser,
                                   s.llm_client, s.use_llm_fallback)
    \/ \E f \in ShortFetches, llm \in Llms : ProcessUrl(f, llm)
    \/ Finalize

Spec == StoreInit /\ [][Next]_vars

\* The writers of the product tables alone: the script and the review route
StoreNext ==
    \/ \E url \in ScriptUrls, f \in Fetches : extract_single_product(url, f)
    \/ \E q \in 1..2, notes \in Notes : approve_quarantined(q, notes)

StoreSpec == StoreInit /\ [][StoreNext]_vars

\* The writers of the product tables with the labels command
CatalogFetches == {Fetch("ok", PageFull), Fetch("ok", PageNoImage),
                   Fetch("raise", PageEmpty)}

CatalogNext ==
    \/ \E url \in ScriptUrls, f \in CatalogFetches : extract_single_product(url, f)
    \/ \E q \in 1..2, notes \in Notes : approve_quarantined(q, notes)
    \/ \E limit \in {0, 1}, dry_run \in BOOLEAN : labels(BRAND, limit, dry_run)

CatalogSpec == StoreInit /\ [][CatalogNext]_vars

\* Brand runs over the long list
RunNext ==
    \/ \E s \in Setups : StartRun("amend", LongList, s.has_browser,
                                   s.llm_client, s.use_llm_fallback)
    \/ NextBrand("amend", LongList)
    \/ \E f \in RunFetches, llm \in Llms : ProcessUrl(f, llm)
    \/ Finalize

RunSpec == Init /\ [][RunNext]_vars

\* process_brand runs to its end once called: each loop iteration and the
\* final block are steps of one sequential function
LiveSpec ==
    /\ RunSpec
    /\ WF_vars(\E f \in RunFetches, llm \in Llms : ProcessUrl(f, llm))
    /\ WF_vars(Finalize)

\* The scrape command: brand runs over the short list one after the other
\* with the command's browser, a repository that can fail at the end of a
\* run, and the cleanup of the browser
ScrapeNext ==
    \/ \E s \in Setups : StartRun("amend", ShortList, s.has_browser,
                                   s.llm_client, s.use_llm_fallback)
    \/ \E f \in ShortFetches, llm \in Llms : ProcessUrl(f, llm)
    \/ Finalize
    \/ FinalizeFails
    \/ CloseBrowser

ScrapeSpec == Init /\ [][ScrapeNext]_vars

\* the command is one sequential program: the loop iteration, the end of
\* process_brand (whichever way it goes) and the cleanup are taken when they
\* are due
ScrapeLiveSpec ==
    /\ ScrapeSpec
    /\ WF_vars(\E f \in ShortFetches, llm \in Llms : ProcessUrl(f, llm))
    /\ WF_vars(Finalize \/ FinalizeFails)
    /\ WF_vars(CloseBrowser)



(* src/storage/repository.py: upsert_product called from concurrent sessions *)

\* lines 18-22: the session looks for the row of the product_url
BeginUpsert(s, extraction, qa) ==
    /\ sessions[s].pc \in {"idle", "done", "failed"}
    /\ ops < MaxOps
    /\ ops' = ops + 1
    /\ sessions' = [sessions EXCEPT ![s] =
           [pc |-> "queried", extraction |-> Some(extraction), qa |-> Some(qa),
            existing |-> IF FindProduct(products, extraction.product_url) = 0
                         THEN 0
                         ELSE IdOf(products, extraction.product_url)]]
    /\ UNCHANGED <<crawl, products, evidence, quarantine_details, brand_coverage, now,
                   run, last>>

\* lines 23-107 and the commit: the row found is updated, the evidence and
\* the quarantine detail are written, and the database applies the writes of
\* one transaction at once; a session that found no row raises at line 48
FinishUpsert(s) ==
    /\ sessions[s].pc = "queried"
    /\ sessions' = [sessions EXCEPT ![s].pc =
                       IF sessions[s].existing = 0 /\ ~Constructs(InsertKeywords)
                       THEN "failed" ELSE "done"]
    /\ Upsert(sessions[s].extraction[1], sessions[s].qa[1])
    /\ UNCHANGED <<crawl, brand_coverage, run, ops>>

\* what the concurrent writers upsert
ConcurrentExtractions ==
    {ExtractionOf(UrlShampoo, extract_product_deterministic(pg, UrlShampoo)) :
        pg \in {PageFull, PageCatalog, PageNoImage}}
    \cup {ExtractionOf(UrlApex, extract_product_deterministic(PageFull, UrlApex))}

ConcurrentNext ==
    \/ \E s \in Writers, x \in ConcurrentExtractions :
          BeginUpsert(s, x, run_product_qa(x, AllowedDomains(BRAND)))
    \/ \E s \in Writers : FinishUpsert(s)

ConcurrentSpec == StoreInit /\ [][ConcurrentNext]_vars

\* The quality gate alone, applied to product records of every shape
GateNames == {"Shampoo Reparador", "Erro 404"}
GateUrls == {UrlShampoo, UrlApex}
GateImages == {NULL, "ld.jpg"}
GateReasons == {"", "keyword 'shampoo' found"}
GateLists == {None, Some(<<>>), Some(RawValid5.pieces), Some(RawShort.pieces),
              Some(RawRepeat.pieces), Some(RawConcat.pieces)}
GateConfidences == {30, 79, 80, 90}

GateProducts ==
    {ProductExtraction(BRAND, name, url, image, reason, list, NULL, NULL, NULL,
                       confidence, "jsonld", <<>>) :
        name \in GateNames, url \in GateUrls, image \in GateImages,
        reason \in GateReasons, list \in GateLists,
        confidence \in GateConfidences}

\* run_product_qa(product, ALLOWED_DOMAINS) is called; last keeps the call
GateCall(product) ==
    /\ last' = [NoCall EXCEPT
                  !.extraction = Some(product),
                  !.qa = Some(run_product_qa(product, AllowedDomains(BRAND)))]
    /\ UNCHANGED <<crawl, products, evidence, quarantine_details, brand_coverage, now,
                   run, ops, sessions>>

GateNext == \E product \in GateProducts : GateCall(product)

GateSpec == Init /\ [][GateNext]_vars

\* The ingredient validator alone, applied to ingredient lists of every shape:
\* the lists MaxEdits insertions or deletions away from a list of five
\* valid, distinct ingredients
MaxEdits == 2

Water == It("water", TRUE)
VerbPhrase == It("aplique nos cabelos molhados", TRUE)

InsertedItems == {GlycerinLc, Water, VerbPhrase, EmptyPiece}

InsertAt(list, i, item) ==
    SubSeq(list, 1, i - 1) \o <<item>> \o SubSeq(list, i, Len(list))

DeleteAt(list, i) == SubSeq(list, 1, i - 1) \o SubSeq(list, i + 1, Len(list))

EditsOf(list, items) ==
    {InsertAt(list, i, item) : i \in 1..(Len(list) + 1), item \in items}
        \cup {DeleteAt(list, i) : i \in 1..Len(list)}

RECURSIVE WithinEdits(_, _, _)
WithinEdits(lists, items, n) ==
    IF n = 0 THEN lists
    ELSE WithinEdits(lists \cup UNION {EditsOf(list, items) : list \in lists},
                     items, n - 1)

IngredientLists ==
    WithinEdits({RawValid5.pieces}, InsertedItems, MaxEdits)
        \cup {RawValidDup.pieces, RawShort.pieces, RawConcat.pieces,
              RawRepeat.pieces}

\* a pure function fn is about to be applied to input
Applying(fn, input) ==
    /\ products = <<>>
    /\ evidence = <<>>
    /\ quarantine_details = <<>>
    /\ brand_coverage = <<>>
    /\ now = 0
    /\ run = IdleRun
    /\ last = [NoCall EXCEPT !.fn = fn, !.input = Some(input)]
    /\ ops = 0
    /\ sessions = [s \in Writers |-> IdleSession]
    /\ crawl = IdleCrawl

\* the function returns output; last keeps the call
Returns(output) ==
    /\ last.output = None
    /\ last' = [last EXCEPT !.output = Some(output)]
    /\ UNCHANGED <<crawl, products, evidence, quarantine_details, brand_coverage, now,
                   run, ops, sessions>>

ValidatorInit ==
    \E ingredients \in IngredientLists :
        Applying("validate_inci_list", ingredients)

\* validate_inci_list(ingredients) is called
ValidateList ==
    /\ last.fn = "validate_inci_list"
    /\ Returns(validate_inci_list(last.input[1]))

ValidatorNext == ValidateList

ValidatorSpec == ValidatorInit /\ [][ValidatorNext]_vars

\* The cleaner alone, applied over and over to raw ingredient texts: the
\* texts MaxEdits insertions or deletions of a piece away from a text of five
\* valid, distinct ingredients
MaxCleanings == 2

VerMais == It("ver mais", TRUE)
VerVerMaisMais == It("ver ver maismais", FALSE)
ModoDeUso == It("modo de uso: aplique", TRUE)

InsertedPieces == {GlycerinLc, VerMais, VerVerMaisMais, ModoDeUso}

RawTexts ==
    {RawText(",", pieces) :
        pieces \in WithinEdits({RawValid5.pieces}, InsertedPieces, MaxEdits)}

CleanerInit == \E raw \in RawTexts : Applying("clean_inci_text", raw)

\* what is kept of one cleaning: the text it returned and what validating
\* the split of that text gives
Cleaned(text) ==
    [text |-> text, result |-> validate_inci_list(_split_ingredients(text))]

\* clean_inci_text is called, on the raw text first and then on the text the
\* call before returned; last.output keeps the cleanings in order
CleanText ==
    /\ last.fn = "clean_inci_text"
    /\ \/ /\ last.output = None
          /\ last' = [last EXCEPT
                        !.output = Some(<<Cleaned(clean_inci_text(last.input[1]))>>)]
       \/ /\ last.output # None
          /\ Len(last.output[1]) < MaxCleanings
          /\ last' = [last EXCEPT
                        !.output = Some(Append(@[1],
                            Cleaned(clean_inci_text(@[1][Len(@[1])].text))))]
    /\ UNCHANGED <<crawl, products, evidence, quarantine_details, brand_coverage, now,
                   run, ops, sessions>>

CleanerNext == CleanText

CleanerSpec == CleanerInit /\ [][CleanerNext]_vars

RECURSIVE ListsUpTo(_, _)
\* the sequences of at most n members of a set
ListsUpTo(set, n) ==
    IF n = 0 THEN {<<>>}
    ELSE ListsUpTo(set, n - 1)
           \cup {Append(list, x) : list \in ListsUpTo(set, n - 1), x \in set}

\* The URL classifier alone, applied to URLs of up to MaxSegs path segments
MaxSegs == 2

ClassifierSegs ==
    {"shampoo-gold-black-reparador", "mascara-nutritiva-300ml", "kit-combo",
     "corpo", "blog", "busca", "shampoo", "p", "1"}

ClassifierUrls ==
    {Url(HostWww, segs, slash, query) :
        segs \in ListsUpTo(ClassifierSegs, MaxSegs), slash \in BOOLEAN,
        query \in {"", "cgid=shampoo"}}

ProductUrlPatterns == {NULL, "/p/[0-9]", "("}

ClassifierInit ==
    \E url \in ClassifierUrls, product_url_pattern \in ProductUrlPatterns :
        Applying("classify_url",
                 [url |-> url, product_url_pattern |-> product_url_pattern])

\* classify_url(url, product_url_pattern) is called
ClassifyUrl ==
    /\ last.fn = "classify_url"
    /\ Returns(classify_url(last.input[1].url, last.input[1].product_url_pattern))

ClassifierNext == ClassifyUrl

ClassifierSpec == ClassifierInit /\ [][ClassifierNext]_vars

\* The part of _extract_product that builds the ProductExtraction (from line
\* 164 on), applied to what extract_product_deterministic returns for a page
\* when called with parameters it has, and to every answer of the LLM fallback
LlmFallbacks ==
    {Llm(usable, raises, inci, description) :
        usable \in BOOLEAN, raises \in BOOLEAN,
        inci \in {NoText, RawValid5, RawShort},
        description \in {NULL, "Repara os fios"}}

BuildInit ==
    \E url \in {UrlShampoo, UrlApex}, pg \in Pages, llm \in LlmFallbacks :
        Applying("_extract_product", [url |-> url, html |-> pg, llm |-> llm])

\* the deterministic extractor has returned; _extract_product goes on
BuildExtraction ==
    /\ last.fn = "_extract_product"
    /\ Returns(AfterDeterministic(
                  last.input[1].url, BRAND,
                  extract_product_deterministic(last.input[1].html,
                                                last.input[1].url),
                  last.input[1].llm))

BuildNext == BuildExtraction

BuildSpec == BuildInit /\ [][BuildNext]_vars

\* The tab-label heuristic alone, applied to pages of up to MaxTabs label
\* elements, in every document order, and up to one panel
MaxTabs == 2

Soups ==
    {Soup(labelled, panels) :
        labelled \in ListsUpTo(TabElements, MaxTabs),
        panels \in ListsUpTo(TabPanels, 1)}

TabInit == \E soup \in Soups : Applying("_extract_inci_by_tab_labels", soup)

\* _extract_inci_by_tab_labels(soup) is called
ExtractByTabLabels ==
    /\ last.fn = "_extract_inci_by_tab_labels"
    /\ Returns(_extract_inci_by_tab_labels(last.input[1]))

TabNext == ExtractByTabLabels

TabSpec == TabInit /\ [][TabNext]_vars

\* Lines 65-93 of the extraction loop on what _extract_product returns once
\* its extractor has delivered: the gate, the upsert, the counters and the
\* brake, for pages the gate verifies, keeps as catalog entries or quarantines
BrakePages == {PageFull, PageCatalog, PageNoImage}

\* one iteration of the loop whose _extract_product call returned the record
\* built from the page pg
ProcessExtracted(pg) ==
    /\ run.pc = "loop"
    /\ HandleResult(run.hair_urls[run.idx + 1], Fetch("ok", pg), run.llm_client,
           AfterDeterministic(run.hair_urls[run.idx + 1], run.report.brand_slug,
               extract_product_deterministic(pg, run.hair_urls[run.idx + 1]),
               NoLlm))
    /\ UNCHANGED <<crawl, brand_coverage, ops, sessions>>

\* a discovery result of seven product pages
SevenList == Append(LongList, SixUrl("7"))

BrakeNext ==
    \/ \E s \in Setups : StartRun("amend", SevenList, s.has_browser,
                                   s.llm_client, s.use_llm_fallback)
    \/ \E pg \in BrakePages : ProcessExtracted(pg)

\* the tables hold the rows of the first six or of all seven product pages
BrakeSeeds ==
    {[i \in 1..n |-> SeedWrite(SevenList[i], PageFull)] : n \in {6, 7}}

BrakeInit == \E writes \in BrakeSeeds : SeededInit(writes)

BrakeSpec == BrakeInit /\ [][BrakeNext]_vars

\* LabelEngine.detect over texts that name seals and texts that name none
MaxImages == 2

LabelTexts == {<<"shampoo", "vegan">>, <<"sem", "silicone", "low", "poo">>,
               <<"cruelty", "free">>, <<"shampoo", "reparador">>}

LabelInciLists == {<<"aqua", "glycerin">>, <<"aqua", "dimethicone">>,
                   <<"sodium laureth sulfate", "methylparaben", "ci 19140">>,
                   <<>>}

Optional(set) == {None} \cup {Some(v) : v \in set}

DetectArgs ==
    [description : Optional(LabelTexts),
     product_name : Optional({<<"shampoo", "vegan">>}),
     benefits_claims : Optional({<<>>, << <<"low">>, <<"poo">> >>}),
     usage_instructions : {None},
     inci_ingredients : Optional(LabelInciLists),
     image_texts : Optional(ListsUpTo(LabelTexts, MaxImages))]

LabelInit == \E args \in DetectArgs : Applying("detect", args)

\* label_engine.detect(...) is called
Detect ==
    /\ last.fn = "detect"
    /\ Returns(detect(last.input[1].description, last.input[1].product_name,
                      last.input[1].benefits_claims,
                      last.input[1].usage_instructions,
                      last.input[1].inci_ingredients,
                      last.input[1].image_texts))

LabelNext == Detect

LabelSpec == LabelInit /\ [][LabelNext]_vars

\* discover on sites of category pages that link to each other and to a
\* product page
MaxLinks == 2
MaxDepth == 1

CategoryA == UrlCategory
CategoryB == Url(HostWww, <<"shampoo">>, TRUE, "")
CategoryC == Url(HostWww, <<"busca">>, TRUE, "")

CrawlPages == {CategoryA, CategoryB, CategoryC}

\* the sites: CategoryA and CategoryB hold at most MaxLinks links each,
\* CategoryC and the product page hold none
Sites ==
    [{CategoryA, CategoryB} -> {links \in SUBSET (CrawlPages \cup {UrlShampoo}) :
                       Cardinality(links) <= MaxLinks}]

CrawlConfigs ==
    {CrawlConfig(has_browser, max_depth, entrypoints, max_pages,
                 product_url_pattern, links, fails) :
        has_browser \in {TRUE}, max_depth \in 0..MaxDepth,
        entrypoints \in {<<CategoryA>>, <<CategoryA, CategoryB, CategoryA>>},
        max_pages \in {1, 3}, product_url_pattern \in {NULL, "("},
        links \in Sites, fails \in {{}, {CategoryA}, {CategoryB}}}
    \cup {CrawlConfig(FALSE, 0, <<CategoryA>>, 3, NULL,
                      [url \in {CategoryA, CategoryB} |-> {}], {})}

CrawlInit ==
    \E config \in CrawlConfigs :
        /\ products = <<>>
        /\ evidence = <<>>
        /\ quarantine_details = <<>>
        /\ brand_coverage = <<>>
        /\ now = 0
        /\ run = IdleRun
        /\ last = NoCall
        /\ ops = 0
        /\ sessions = [s \in Writers |-> IdleSession]
        /\ crawl = [IdleCrawl EXCEPT !.config = Some(config)]

CrawlNext ==
    \/ StartDiscover
    \/ CrawlStep
    \/ FinishDiscover

CrawlSpec == CrawlInit /\ [][CrawlNext]_vars

\* discover is one sequential function: once called, each iteration of its
\* loop and its last lines are taken when they are due
CrawlLiveSpec ==
    /\ CrawlSpec
    /\ WF_vars(StartDiscover)
    /\ WF_vars(CrawlStep)
    /\ WF_vars(FinishDiscover)

-----------------------------------------------------------------------------
(* Vocabulary of the properties *)

\* what the page pg, served under url, holds for the extraction code of
\* process_brand: None, or Some(the product record built from it)
ProductOf(url, brand_slug, pg) ==
    AfterDeterministic(url, brand_slug, extract_product_deterministic(pg, url),
                       NoLlm).product

\* the gate's verdict on that product, "none" when the page holds none
GateStatus(url, brand_slug, pg) ==
    IF ProductOf(url, brand_slug, pg) = None THEN "none"
    ELSE run_product_qa(ProductOf(url, brand_slug, pg)[1],
                        AllowedDomains(brand_slug)).status

\* the k-th URL the loop handled was fetched without failure
FetchedOk(k) ==
    /\ k <= Len(run.log)
    /\ run.log[k].fetch # None
    /\ run.log[k].fetch[1].outcome = "ok"

\* ... and the page it got holds a product the gate quarantines
QuarantinedAt(k) ==
    /\ FetchedOk(k)
    /\ GateStatus(run.log[k].url, run.report.brand_slug,
                  run.log[k].fetch[1].html) = "quarantined"

StopEntries == {i \in 1..Len(run.report.errors) :
                   run.report.errors[i].kind = "stop_the_line"}

ErrorsFor(url) == {i \in 1..Len(run.report.errors) :
                      /\ run.report.errors[i].kind = "extraction_error"
                      /\ run.report.errors[i].url = Some(url)}

\* the brand_coverage rows of a brand
CoverageRows(brand_slug) ==
    {i \in 1..Len(brand_coverage) : brand_coverage[i].stats.brand_slug = brand_slug}

-----------------------------------------------------------------------------
(* C1 *)

\* C1: process_brand handles the product URLs one at a time in list order and
\* brakes the first time extracted_total >= 5 and more than half of the
\* extracted products are quarantined.  Stated on the example of the claim:
\* when the first five URLs of a run are fetched and each page holds a product
\* the gate quarantines, the loop handles no sixth URL, the counters stand at
\* extracted_total = 5 and quarantined_total = 5, and report.errors holds
\* exactly one stop_the_line entry.
C1_StopsAfterFiveQuarantined ==
    (/\ Len(run.log) >= StopMinExtracted
     /\ \A k \in 1..StopMinExtracted : QuarantinedAt(k))
    => /\ Len(run.log) = StopMinExtracted
       /\ run.report.extracted_total = StopMinExtracted
       /\ run.report.quarantined_total = StopMinExtracted
       /\ Cardinality(StopEntries) = 1
       /\ run.pc \in {"finalize", "returned"}

\* the run of the example has been made: six URLs handled, the first five
\* with pages of quarantinable products
C1_SixthAttempted ==
    /\ Len(run.log) = StopMinExtracted + 1
    /\ \A k \in 1..StopMinExtracted : QuarantinedAt(k)

-----------------------------------------------------------------------------
(* C2 *)

\* the coverage row of the run's brand holds the counters of the report
CoverageSaved ==
    /\ Cardinality(CoverageRows(run.report.brand_slug)) = 1
    /\ \A i \in CoverageRows(run.report.brand_slug) :
          brand_coverage[i].stats = generate_coverage_stats(run.report)

-----------------------------------------------------------------------------
(* C3 *)

\* the fetch of the k-th handled URL failed or timed out, or parsing the page
\* it returned raises
FailedAt(k) ==
    /\ k <= Len(run.log)
    /\ run.log[k].fetch # None
    /\ \/ run.log[k].fetch[1].outcome \in {"raise", "timeout"}
       \/ extract_product_deterministic(run.log[k].fetch[1].html,
                                        run.log[k].url).raised

\* C3: when the fetch of a product URL fails or times out, or parsing its page
\* raises, process_brand appends one extraction_error entry for that URL to
\* report.errors, persists no product for it, leaves the extracted / verified
\* / catalog_only / quarantined counters as they were, and goes on with the
\* next URL.  (The URLs of a run are distinct; the counters are those of the
\* products the run persisted.)
C3_FailureRecorded ==
    \A k \in 1..Len(run.log) :
        FailedAt(k) =>
            /\ Cardinality(ErrorsFor(run.log[k].url)) = 1
            /\ FindProduct(products, run.log[k].url) = 0
            /\ run.report.extracted_total
                 = Cardinality({j \in 1..Len(run.log) :
                                   FindProduct(products, run.log[j].url) # 0})
            /\ (k < Len(run.hair_urls) => run.pc = "loop" \/ Len(run.log) > k)

\* a run handled a URL whose fetch raised
C3_FetchRaised ==
    \E k \in 1..Len(run.log) :
        run.log[k].fetch # None /\ run.log[k].fetch[1].outcome = "raise"

-----------------------------------------------------------------------------
(* C4 *)

\* no two items of a list are equal ignoring case
UniqueIgnoringCase(items) ==
    \A i, j \in 1..Len(items) : i # j => Lower(items[i]) # Lower(items[j])

\* C4: in every reachable state of the store, after brand runs, repeated
\* upserts of the same product_url and quarantine approvals, every product
\* whose verification_status is verified_inci has a non-null inci_ingredients
\* of at least 5 items, no two equal ignoring case, and confidence >= 0.80.
C4_VerifiedHasIngredients ==
    \A i \in 1..Len(products) :
        products[i].verification_status = "verified_inci" =>
            /\ products[i].inci_ingredients # None
            /\ Len(products[i].inci_ingredients[1]) >= MinInciTerms
            /\ UniqueIgnoringCase(products[i].inci_ingredients[1])
            /\ products[i].confidence >= MinConfidence

\* a reviewer approved a quarantined product that has no ingredient list
C4_ApprovedWithoutIngredients ==
    \E q \in 1..Len(quarantine_details) :
        /\ quarantine_details[q].review_status = "approved"
        /\ products[quarantine_details[q].product_id].verification_status
             = "verified_inci"
        /\ products[quarantine_details[q].product_id].inci_ingredients = None

-----------------------------------------------------------------------------
(* C5 *)

\* the ingredient text the extractor finds on a page
InciRawOf(url, pg) == extract_product_deterministic(pg, url).inci_raw

\* the page holds a product and an ingredient text that fails validation
InvalidTextAt(k) ==
    /\ FetchedOk(k)
    /\ ProductOf(run.log[k].url, run.report.brand_slug,
                 run.log[k].fetch[1].html) # None
    /\ InciRawOf(run.log[k].url, run.log[k].fetch[1].html) # NoText
    /\ ~extract_and_validate_inci(
           InciRawOf(run.log[k].url, run.log[k].fetch[1].html)).valid

\* the product of url is stored quarantined and its rejection reason holds code
QuarantinedWith(url, code) ==
    /\ FindProduct(products, url) # 0
    /\ products[FindProduct(products, url)].verification_status = "quarantined"
    /\ \E q \in 1..Len(quarantine_details) :
          /\ quarantine_details[q].product_id = products[FindProduct(products, url)].id
          /\ code \in Range(quarantine_details[q].rejection_reason)

\* C5: when process_brand finds ingredient text for a product and the text
\* fails ingredient validation (min_ingredients, concat_detected,
\* repetition_detected, empty_after_cleaning), the product is persisted with
\* verification_status quarantined and the rejection code is part of its
\* rejection reason.
C5_InvalidTextQuarantined ==
    \A k \in 1..Len(run.log) :
        InvalidTextAt(k) =>
            QuarantinedWith(run.log[k].url,
                extract_and_validate_inci(
                    InciRawOf(run.log[k].url, run.log[k].fetch[1].html)
                ).rejection_reason[1])

\* process_brand handled the page of the claim's example
C5_ConcatPageHandled ==
    \E k \in 1..Len(run.log) :
        /\ InvalidTextAt(k)
        /\ InciRawOf(run.log[k].url, run.log[k].fetch[1].html) = RawConcat

\* The same for the writer that does reach the gate: a product just stored by
\* extract_single_product from a page whose ingredient text failed validation
\* (the evidence names the text, no list was kept) is stored quarantined.
C5_ScriptInvalidTextQuarantined ==
    (/\ last.extraction # None
     /\ last.extraction[1].confidence = 30)
    => last.qa[1].status = "quarantined"

-----------------------------------------------------------------------------
(* C6 *)

AllowedHost(row) == _check_domain(row.product_url, AllowedDomains(row.brand_slug))

\* the detail rows of a product
DetailsOf(product_id) ==
    {q \in 1..Len(quarantine_details) :
        quarantine_details[q].product_id = product_id}

-----------------------------------------------------------------------------
(* C7 *)

EvidenceNames(extraction) ==
    {extraction.evidence[i].field_name : i \in 1..Len(extraction.evidence)}

\* C7: for every product handed to the repository and every field of it that
\* holds a value (image_url_main, description, price, currency,
\* inci_ingredients), the evidence handed over with it has an entry whose
\* field_name names that field.
C7_EvidenceForEveryField ==
    last.extraction # None =>
        /\ last.extraction[1].image_url_main # NULL
              => "image_url_main" \in EvidenceNames(last.extraction[1])
        /\ last.extraction[1].description # NULL
              => "description" \in EvidenceNames(last.extraction[1])
        /\ last.extraction[1].price # NULL
              => "price" \in EvidenceNames(last.extraction[1])
        /\ last.extraction[1].currency # NULL
              => "currency" \in EvidenceNames(last.extraction[1])
        /\ last.extraction[1].inci_ingredients # None
              => "inci_ingredients" \in EvidenceNames(last.extraction[1])

\* a product whose image came from the og:image tag has been handed over
C7_OgImageStored ==
    /\ last.extraction # None
    /\ last.extraction[1].image_url_main = "og.jpg"

-----------------------------------------------------------------------------
(* C8 *)

\* C8: after any sequence of upsert_product calls (and approvals), every
\* product whose verification_status is quarantined owns exactly one
\* QuarantineDetail row, and the rejection_reason of that row is not empty;
\* also when the product was not quarantined in between.
C8_OneDetailPerQuarantined ==
    \A i \in 1..Len(products) :
        products[i].verification_status = "quarantined" =>
            /\ Cardinality(DetailsOf(products[i].id)) = 1
            /\ \A q \in DetailsOf(products[i].id) :
                  quarantine_details[q].rejection_reason # <<>>

\* a product is quarantined again after it had left quarantine through an
\* approval
C8_QuarantinedAgain ==
    \E i \in 1..Len(products) :
        /\ products[i].verification_status = "quarantined"
        /\ \E q \in DetailsOf(products[i].id) :
              quarantine_details[q].review_status = "approved"

\* C9: every stored product whose verification_status is catalog_only has
\* inci_ingredients = null, also after an upsert has overwritten a row that
\* held a verified ingredient list
C9_CatalogOnlyHasNoIngredients ==
    \A i \in 1..Len(products) :
        products[i].verification_status = "catalog_only"
            => products[i].inci_ingredients = None

\* an upsert has just turned a verified_inci row into a catalog_only one
C9_VerifiedOverwritten ==
    /\ last.extraction # None
    /\ last.before = "verified_inci"
    /\ \E i \in 1..Len(products) :
          /\ products[i].id = last.product_id
          /\ products[i].verification_status = "catalog_only"
          /\ products[i].inci_ingredients = None

Extractions ==
    {ExtractionOf(c[1], extract_product_deterministic(c[2], c[1])) :
        c \in {d \in ScriptUrls \X Pages :
                  extract_product_deterministic(d[2], d[1]).product_name # NULL}}

\* the gate results upsert_product is applied to: what the gate answers for
\* some extraction, and a quarantine without a reason
Gates ==
    {run_product_qa(x, AllowedDomains(BRAND)) : x \in Extractions}
        \cup {QAResult("quarantined", FALSE, <<>>, <<>>, <<>>)}

\* rows with updated_at left out of the comparison
WithoutUpdatedAt(rows) ==
    [i \in 1..Len(rows) |-> [rows[i] EXCEPT !.updated_at = 0]]

\* d1 is the store after upsert_product(x, qa), d2 the store after the same
\* call on d1: one row for x.product_url, the same id, no row more, the
\* same quarantine details with at most one for the product, and the evidence
\* of d1 followed by the evidence of x
SameButEvidence(d1, d2, x) ==
    /\ d2.product_id = d1.product_id
    /\ Len(d2.products) = Len(d1.products)
    /\ Cardinality({i \in 1..Len(d2.products) :
                      d2.products[i].product_url = x.product_url}) = 1
    /\ d2.quarantine_details = d1.quarantine_details
    /\ Cardinality({i \in 1..Len(d2.quarantine_details) :
                      d2.quarantine_details[i].product_id = d2.product_id}) <= 1
    /\ d2.evidence = SaveEvidence(d1.evidence, d1.product_id, x)

SecondCall(d1, x, qa) == upsert_product(d1, x, qa, now + 1)

\* ... and every product row of d2 is the row of d1
SameExactly(d1, d2, x) ==
    /\ SameButEvidence(d1, d2, x)
    /\ d2.products = d1.products

\* ... and every product row of d2 is the row of d1 but for updated_at
SameButUpdatedAt(d1, d2, x) ==
    /\ SameButEvidence(d1, d2, x)
    /\ WithoutUpdatedAt(d2.products) = WithoutUpdatedAt(d1.products)

IdempotentExactly(d1, x, qa) == SameExactly(d1, SecondCall(d1, x, qa), x)

IdempotentButUpdatedAt(d1, x, qa) ==
    SameButUpdatedAt(d1, SecondCall(d1, x, qa), x)

\* C10 as stated: upsert_product(x, qa) applied twice leaves the store that
\* one application leaves, every field of every product row included; only
\* the evidence rows of the second call are added
C10_TwiceIsOnce ==
    \A x \in Extractions, qa \in Gates :
        IdempotentExactly(upsert_product(Store, x, qa, now), x, qa)

\* what holds instead when x.product_url is stored: the two calls leave one
\* row for it under the id both return, with the field values one call
\* leaves except updated_at, and at most one quarantine detail
StoredTwiceIsOnceButUpdatedAt ==
    \A x \in Extractions, qa \in Gates :
        FindProduct(products, x.product_url) # 0
            => IdempotentButUpdatedAt(upsert_product(Store, x, qa, now), x, qa)

\* ... and when x.product_url is not stored: both calls raise and write
\* nothing
UnstoredTwiceRaises ==
    \A x \in Extractions, qa \in Gates :
        FindProduct(products, x.product_url) = 0
            => /\ upsert_product(Store, x, qa, now).raised = "TypeError"
               /\ SecondCall(upsert_product(Store, x, qa, now), x, qa).raised
                     = "TypeError"
               /\ SecondCall(upsert_product(Store, x, qa, now), x, qa).products
                     = products

\* the same upsert_product call has been made twice in a row, and the row
\* carries the time of the second call
C10_CalledTwice ==
    /\ last.repeat
    /\ \E i \in 1..Len(products) :
          /\ products[i].id = last.product_id
          /\ products[i].updated_at > products[i].created_at

-----------------------------------------------------------------------------
(* C11 *)

\* the evidence rows of a product, in table order
EvidenceOf(rows, product_id) ==
    SelectSeq(rows, LAMBDA row : row.product_id = product_id)

\* the entries of an extraction as rows of a product, in extraction order
EntriesAsRows(product_id, extraction) ==
    [i \in 1..Len(extraction.evidence) |->
        [product_id |-> product_id,
         field_name |-> extraction.evidence[i].field_name,
         extraction_method |-> extraction.evidence[i].extraction_method]]

\* the step leaves every evidence row as it was, or it is an upsert_product
\* call that appends the entries of its extraction behind them
EvidenceStep ==
    \/ evidence' = evidence
    \/ /\ last'.extraction # None
       /\ evidence' = evidence
              \o EntriesAsRows(last'.product_id, last'.extraction[1])
       /\ EvidenceOf(evidence', last'.product_id)
              = EvidenceOf(evidence, last'.product_id)
                   \o EntriesAsRows(last'.product_id, last'.extraction[1])

\* C11: upsert_product never deletes or modifies an existing evidence row;
\* over any sequence of upserts of one product_url the evidence rows of the
\* product only grow, each call appending the entries of its extraction in
\* extraction order
C11_EvidenceOnlyGrows == [][EvidenceStep]_vars

\* an upsert has overwritten an existing row and the product holds the
\* evidence of the earlier upsert followed by that of this one
C11_EvidenceAppended ==
    /\ last.extraction # None
    /\ last.before # "none"
    /\ Len(last.extraction[1].evidence) > 0
    /\ Len(EvidenceOf(evidence, last.product_id))
          > Len(last.extraction[1].evidence)

-----------------------------------------------------------------------------
(* C12 *)

\* a loop iteration in which the engine's LLM client recorded a call
LlmCallStep ==
    /\ run.pc = "loop"
    /\ run'.idx = run.idx + 1
    /\ run.llm_client # None
    /\ run'.llm_client[1].total_calls > run.llm_client[1].total_calls

\* a call is recorded only when the blueprint enables the fallback and
\* can_call was true when the iteration began
CallOnlyWhenAllowed ==
    LlmCallStep => run.use_llm_fallback /\ ClientCanCall(run.llm_client)

\* the recorded calls never exceed max_calls
CallsWithinBudget ==
    run.llm_client # None
        => run.llm_client[1].total_calls <= run.llm_client[1].max_calls

\* the k-th URL of the run was handled with the budget exhausted, was fetched
\* and its page holds a product
ExhaustedAt(k) ==
    /\ run.llm_client # None
    /\ ~run.log[k].can_call
    /\ FetchedOk(k)
    /\ ProductOf(run.log[k].url, run.report.brand_slug,
                 run.log[k].fetch[1].html) # None

\* the product of the k-th URL is stored as the deterministic extraction
\* and the gate leave it
StoredDeterministically(k) ==
    \E i \in 1..Len(products) :
        /\ products[i].product_url = run.log[k].url
        /\ products[i].verification_status
              = GateStatus(run.log[k].url, run.report.brand_slug,
                           run.log[k].fetch[1].html)
        /\ products[i].inci_ingredients
              = ProductOf(run.log[k].url, run.report.brand_slug,
                          run.log[k].fetch[1].html)[1].inci_ingredients

PersistedWhenExhausted ==
    \A k \in 1..Len(run.log) :
        ExhaustedAt(k) => /\ StoredDeterministically(k)
                          /\ ErrorsFor(run.log[k].url) = {}

\* C12: the engine asks the LLM only when the blueprint enables the fallback
\* and can_call is true; the recorded calls never exceed max_calls; and every
\* product handled once the budget is exhausted is still extracted
\* deterministically and persisted, with no entry added to report.errors
C12_BudgetRespected ==
    /\ [](CallsWithinBudget /\ PersistedWhenExhausted)
    /\ [][CallOnlyWhenAllowed]_vars

\* a URL has been fetched and holds a product while the budget of the LLM
\* client was exhausted
C12_HandledWithoutBudget ==
    \E k \in 1..Len(run.log) : ExhaustedAt(k)

-----------------------------------------------------------------------------
(* C13 *)

\* the Tier-1 checks a product fails
Tier1Failures(product) ==
    {c \in {"name_garbage", "domain_unofficial", "no_image", "no_hair_relevance"} :
        \/ c = "name_garbage" /\ NameIsGarbage(product.product_name)
        \/ c = "domain_unofficial"
              /\ ~_check_domain(product.product_url, AllowedDomains(BRAND))
        \/ c = "no_image" /\ product.image_url_main = NULL
        \/ c = "no_hair_relevance" /\ product.hair_relevance_reason = ""}

\* no ingredient list: None, or a list without items
InciAbsent(product) ==
    product.inci_ingredients = None \/ product.inci_ingredients = Some(<<>>)

\* the list passes re-validation and the confidence reaches the minimum
Tier2Passes(product) ==
    /\ validate_inci_list(product.inci_ingredients[1]).valid
    /\ product.confidence >= MinConfidence

GateContract(product, qa) ==
    /\ qa.passed = (qa.status # "quarantined")
    /\ IF Tier1Failures(product) # {}
       THEN /\ qa.status = "quarantined"
            /\ Range(qa.rejection_reason) = Tier1Failures(product)
       ELSE IF InciAbsent(product) THEN qa.status = "catalog_only"
       ELSE IF Tier2Passes(product) THEN qa.status = "verified_inci"
       ELSE qa.status = "quarantined"

\* C13: run_product_qa quarantines whenever a Tier-1 check fails, whatever
\* the ingredients, and its rejection_reason lists every failed Tier-1 check;
\* when Tier 1 passes it answers catalog_only iff there is no ingredient
\* list, quarantined if the list fails re-validation or the confidence is
\* below 0.80, verified_inci only when both pass; passed is true exactly
\* when the status is not quarantined
C13_GateVerdict ==
    last.qa # None => GateContract(last.extraction[1], last.qa[1])

\* the gate has quarantined a product with a valid ingredient list and full
\* confidence that fails three Tier-1 checks, and names the three
C13_ThreeFailuresListed ==
    /\ last.qa # None
    /\ last.extraction[1].inci_ingredients = Some(RawValid5.pieces)
    /\ last.extraction[1].confidence = 90
    /\ Cardinality(Tier1Failures(last.extraction[1])) = 3
    /\ last.qa[1].status = "quarantined"
    /\ Len(last.qa[1].rejection_reason) = 3

-----------------------------------------------------------------------------
(* C14 *)

\* the brand run has ended, by returning or by an exception
RunExited == run.pc \in {"returned", "raised"}

\* C14: the browser session used for a brand run is released on every exit
\* path of the run: normal completion, stop-the-line, and an exception that
\* escapes process_brand
C14_BrowserReleased ==
    (RunExited /\ run.browser_open) ~> (~run.browser_open)

\* an exception has left process_brand while the browser was launched
C14_RaisedWithBrowserOpen ==
    /\ run.pc = "raised"
    /\ run.browser_open

-----------------------------------------------------------------------------
(* C15 *)

\* a step in which a repository call of process_brand raised
RepositoryRaises == run'.repo_errors > run.repo_errors

-----------------------------------------------------------------------------
(* C16 *)

\* the k-th URL of the run was processed without an error: its page was
\* fetched, holds a product, and report.errors has no entry for it
ProcessedOk(k) ==
    /\ FetchedOk(k)
    /\ ProductOf(run.log[k].url, run.report.brand_slug,
                 run.log[k].fetch[1].html) # None
    /\ ErrorsFor(run.log[k].url) = {}

\* C16: when a brand run aborts with an error, the products and evidence of
\* the URLs it had processed and the counters it had reached are committed:
\* the rows of the products are in the table and the coverage row of the
\* brand holds the counters of the report
C16_CommittedBeforeAbort ==
    run.pc = "raised"
        => /\ \A k \in 1..Len(run.log) :
                 ProcessedOk(k) =>
                     \E i \in 1..Len(products) :
                         products[i].product_url = run.log[k].url
           /\ CoverageSaved

\* a run has aborted after classifying its URLs and handling its product
\* URL, and the brand has no coverage row
C16_AbortedWithCounters ==
    /\ run.pc = "raised"
    /\ run.report.discovered_total > 0
    /\ run.report.hair_total > 0
    /\ Len(run.log) > 0
    /\ CoverageRows(run.report.brand_slug) = {}

-----------------------------------------------------------------------------
(* C17 *)

RowsOf(url) == {i \in 1..Len(products) : products[i].product_url = url}

\* C17: when two writers with separate sessions upsert the same product_url
\* concurrently, every interleaving of the two upsert_product calls ends
\* with exactly one product row for that URL and neither call fails
C17_AtomicUpsert ==
    \A s \in Writers :
        /\ sessions[s].pc # "failed"
        /\ sessions[s].pc = "done"
              => Cardinality(RowsOf(sessions[s].extraction[1].product_url)) = 1

\* two calls for one product_url that both found no row have both ended
C17_BothFoundNoRow ==
    /\ \A s \in Writers : sessions[s].pc \in {"done", "failed"}
                            /\ sessions[s].existing = 0
    /\ sessions[1].extraction[1].product_url
          = sessions[2].extraction[1].product_url

-----------------------------------------------------------------------------
(* C18 *)

\* the positions of the input that validate_inci_list is to keep: a non-empty
\* item that passes validate_ingredient and equals no earlier item ignoring
\* case
FirstOccurrences(items) ==
    {i \in 1..Len(items) :
        /\ items[i] # EmptyPiece
        /\ validate_ingredient(items[i])
        /\ \A j \in 1..(i - 1) : Lower(items[j]) # Lower(items[i])}

\* cleaned is the input restricted to the positions idx, in input order
IsSubsequenceAt(cleaned, items, idx) ==
    /\ Len(cleaned) = Cardinality(idx)
    /\ \A i \in idx : cleaned[Cardinality({j \in idx : j <= i})] = items[i]

ValidatedList == last.fn = "validate_inci_list" /\ last.output # None

\* what a valid=true result promises
ValidResultContract ==
    (ValidatedList /\ last.output[1].valid) =>
        LET cleaned == last.output[1].cleaned
        IN  /\ Len(cleaned) >= MinInciTerms
            /\ UniqueIgnoringCase(cleaned)
            /\ \A k \in 1..Len(cleaned) : validate_ingredient(cleaned[k])
            /\ IsSubsequenceAt(cleaned, last.input[1],
                               FirstOccurrences(last.input[1]))

\* the input is exactly five items, each passing validate_ingredient, no two
\* equal ignoring case
FiveValidDistinct ==
    /\ ValidatedList
    /\ Len(last.input[1]) = MinInciTerms
    /\ \A k \in 1..Len(last.input[1]) :
          last.input[1][k] # EmptyPiece /\ validate_ingredient(last.input[1][k])
    /\ UniqueIgnoringCase(last.input[1])

-----------------------------------------------------------------------------
(* C19 *)

\* two validation results agree on the valid flag, the cleaned list and the
\* rejection reason
SameVerdict(r1, r2) ==
    /\ r1.valid = r2.valid
    /\ r1.cleaned = r2.cleaned
    /\ r1.rejection_reason = r2.rejection_reason

CleanedTwice ==
    /\ last.fn = "clean_inci_text"
    /\ last.output # None
    /\ Len(last.output[1]) >= 2

\* C19: for every raw ingredient text, validating the split of
\* clean_inci_text(raw) gives the same valid flag, cleaned list and rejection
\* reason as validating the split of clean_inci_text(clean_inci_text(raw)).
C19_CleaningIdempotentForValidation ==
    CleanedTwice => SameVerdict(last.output[1][1].result, last.output[1][2].result)

\* a text with a cut marker and a garbage phrase was cleaned twice, the second
\* cleaning changing nothing
C19_CleanedTwiceUnchanged ==
    /\ CleanedTwice
    /\ \E i \in 1..Len(last.input[1].pieces) : last.input[1].pieces[i] = ModoDeUso
    /\ \E i \in 1..Len(last.input[1].pieces) : last.input[1].pieces[i] = VerMais
    /\ last.output[1][1].text = last.output[1][2].text
    /\ last.output[1][1].result.valid

-----------------------------------------------------------------------------
(* C20 *)

ExtractedByTabLabels ==
    last.fn = "_extract_inci_by_tab_labels" /\ last.output # None

\* the element or panel yields a candidate: it matches a label and one of
\* its contents looks like an ingredient list
ElementQualifies(el) ==
    /\ \E i \in 1..Len(INCI_TAB_LABELS) : StartsWith(el.head, INCI_TAB_LABELS[i])
    /\ \/ TextLen(el.inline.pieces, 1) > 30 /\ _looks_like_inci(el.inline)
       \/ _looks_like_inci(el.sibling)
       \/ el.tag \in {"h2", "h3", "h4"} /\ _looks_like_inci(el.next_p)
       \/ _looks_like_inci(el.section)
       \/ _looks_like_inci(el.parent_sibling)

PanelQualifies(el) ==
    /\ \E i \in 1..Len(INCI_TAB_LABELS) : Contains(el.prev_text, INCI_TAB_LABELS[i])
    /\ _looks_like_inci(el.content)

SomeCandidateQualifies(soup) ==
    \/ \E i \in 1..Len(soup.labelled) : ElementQualifies(soup.labelled[i])
    \/ \E i \in 1..Len(soup.panels) : PanelQualifies(soup.panels[i])

\* candidate k is the one to return: no candidate has a smaller label index,
\* and none gathered before it has the same
IsWinner(candidates, k) ==
    /\ \A j \in 1..Len(candidates) :
          candidates[k].priority <= candidates[j].priority
    /\ \A j \in 1..(k - 1) : candidates[j].priority # candidates[k].priority

\* C20: _extract_inci_by_tab_labels returns the content of the qualifying
\* candidate whose matched label has the smallest index in the label list,
\* whatever the document order of the candidates, and among candidates of
\* equal priority the one gathered first; it returns nothing only when no
\* candidate qualifies.
C20_MostSpecificLabelWins ==
    ExtractedByTabLabels =>
        LET soup == last.input[1]
            candidates == Candidates(soup)
        IN  /\ (last.output[1] = NoText) <=> ~SomeCandidateQualifies(soup)
            /\ SomeCandidateQualifies(soup) =>
                  \E k \in 1..Len(candidates) :
                      /\ IsWinner(candidates, k)
                      /\ last.output[1] = candidates[k].content

\* the generic label stood first in the document and also tied with a later
\* element; the content behind the most specific label was returned
C20_SpecificLabelAfterGeneric ==
    /\ ExtractedByTabLabels
    /\ Len(last.input[1].labelled) >= 2
    /\ last.input[1].labelled[1] = ButtonIngredientes
    /\ last.input[1].labelled[2] = ButtonListaCompleta
    /\ last.output[1] = RawValid5

-----------------------------------------------------------------------------
(* C21 *)

URLType == {"product", "category", "kit", "non_hair", "other"}

ClassifiedUrl == last.fn = "classify_url" /\ last.output # None

\* some KIT_PATTERNS entry is found in the URL
MatchesKit(url) ==
    \E i \in 1..Len(url.segs) :
        \/ SegInfo(url.segs[i]).kitprefix
        \/ SegInfo(url.segs[i]).kitword /\ (i < Len(url.segs) \/ url.slash)

\* some EXCLUDE_KEYWORDS entry is a path segment of the URL
MatchesNonHair(url) == \E i \in 1..Len(url.segs) : SegInfo(url.segs[i]).exclude

\* some NON_PRODUCT_PATHS entry is a path segment of the URL
MatchesOther(url) == \E i \in 1..Len(url.segs) : SegInfo(url.segs[i]).nonproduct

\* C21: for every URL and every product_url_pattern classify_url returns
\* exactly one of product, category, kit, non_hair, other and never raises,
\* and the rules apply in the order kit, non_hair, other, category, product:
\* a URL matching a kit pattern is kit whatever else it matches, and so on
\* down the order.
C21_ClassifyTotalAndOrdered ==
    ClassifiedUrl =>
        LET url == last.input[1].url
            out == last.output[1]
        IN  /\ out \in URLType
            /\ MatchesKit(url) => out = "kit"
            /\ (~MatchesKit(url) /\ MatchesNonHair(url)) => out = "non_hair"
            /\ (~MatchesKit(url) /\ ~MatchesNonHair(url) /\ MatchesOther(url))
                  => out = "other"
            /\ (/\ ~MatchesKit(url) /\ ~MatchesNonHair(url) /\ ~MatchesOther(url)
                /\ QueryIsCategory(url.query)) => out = "category"

\* a URL matching a kit pattern, an excluded keyword and an info page was
\* classified kit, under a pattern that is no regular expression
C21_KitWinsOverAll ==
    /\ ClassifiedUrl
    /\ last.input[1].url.segs = <<"kit-combo", "corpo">>
    /\ last.input[1].product_url_pattern = "("
    /\ last.output[1] = "kit"

-----------------------------------------------------------------------------
(* C22 *)

\* _extract_product has built a ProductExtraction
BuiltExtraction ==
    /\ last.fn = "_extract_product"
    /\ last.output # None
    /\ last.output[1].product # None

HasContent(product) ==
    \/ product.description # NULL
    \/ product.inci_ingredients # None
    \/ product.price # NULL
    \/ product.currency # NULL

-----------------------------------------------------------------------------
(* C23 *)

\* the run is in its loop and its LLM client, enabled by the blueprint, has
\* budget left
BudgetLeft ==
    /\ run.pc = "loop"
    /\ run.has_browser
    /\ run.use_llm_fallback
    /\ ClientCanCall(run.llm_client)

\* a loop iteration in which the client records one more call
RecordedRequestStep ==
    /\ \E f \in RunFetches, llm \in Llms : ProcessUrl(f, llm)
    /\ run'.llm_client[1].total_calls = run.llm_client[1].total_calls + 1

\* the loop of a run begins with none of the client's budget spent
FreshBudgetAtStart ==
    (run.pc = "loop" /\ run.idx = 0 /\ run.llm_client # None)
        => run.llm_client[1].total_calls = 0

\* C23: the LLM call budget is per brand: what one brand's run recorded does
\* not reduce the budget of the next run with the same client, so that every
\* run can issue LLM requests until max_calls of them are recorded.
C23_BudgetPerBrand ==
    /\ FreshBudgetAtStart
    /\ BudgetLeft => ENABLED RecordedRequestStep

\* a second brand is being processed with the client of the first, which
\* still has budget
C23_SecondBrandWithBudget ==
    /\ run.n >= 2
    /\ run.idx >= 1
    /\ BudgetLeft

-----------------------------------------------------------------------------
(* C24 *)

\* the page the loop got for its k-th URL yields a product name
YieldsName(k) ==
    /\ FetchedOk(k)
    /\ extract_product_deterministic(run.log[k].fetch[1].html,
                                     run.log[k].url).product_name # NULL
    /\ ~extract_product_deterministic(run.log[k].fetch[1].html,
                                      run.log[k].url).raised

\* the product of url is stored and carries the result of the label engine
StoredWithLabels(url) ==
    /\ FindProduct(products, url) # 0
    /\ products[FindProduct(products, url)].product_labels # None

\* C24: for every product URL whose page yields a product name, process_brand
\* goes through fetch, deterministic extraction, label engine, quality gate,
\* upsert and counter update, the label result being attached before the gate:
\* once the loop has handled such a URL, the store holds its product and the
\* row carries product_labels.
C24_PersistedWithLabels ==
    \A k \in 1..Len(run.log) : YieldsName(k) => StoredWithLabels(run.log[k].url)

\* the loop has handled a URL whose page yields a product name
C24_NamedPageHandled ==
    \E k \in 1..Len(run.log) :
        /\ YieldsName(k)
        /\ run.report.errors # <<>>

-----------------------------------------------------------------------------
(* C25 *)

\* detect has returned
Detected == last.fn = "detect" /\ last.output # None

\* no item stands at two positions of the list
NoRepeats(list) ==
    \A i, j \in 1..Len(list) : list[i] = list[j] => i = j

\* the seals some text field of the call names
SealsInTextFields ==
    {SealKeywords[i].seal : i \in
        {i \in 1..Len(SealKeywords) :
            \E f \in Range(_build_text_fields(
                           last.input[1].description, last.input[1].product_name,
                           last.input[1].benefits_claims,
                           last.input[1].usage_instructions)) :
                SealIn(SealKeywords[i], f.text)}}

\* the seals some image text of the call names
SealsInImageTexts ==
    IF last.input[1].image_texts = None THEN {}
    ELSE {SealKeywords[i].seal : i \in
            {i \in 1..Len(SealKeywords) :
                \E t \in Range(last.input[1].image_texts[1]) :
                    SealIn(SealKeywords[i], t)}}

\* C25: in every LabelResult detect returns, no seal is in both detected and
\* inferred, and no seal is twice in detected, even when its keywords match a
\* text field and an image text.
C25_SealsDisjointAndUnique ==
    Detected =>
        /\ Range(last.output[1].detected) \cap Range(last.output[1].inferred) = {}
        /\ NoRepeats(last.output[1].detected)

\* detect has returned for a call where a text field and an image text name
\* the same seal, and where a seal named by a text is one the ingredient list
\* would infer
C25_SealInTextAndImage ==
    /\ Detected
    /\ SealsInTextFields \cap SealsInImageTexts # {}
    /\ "silicone_free" \in SealsInTextFields
    /\ last.input[1].inci_ingredients = Some(<<"aqua", "glycerin">>)

-----------------------------------------------------------------------------
(* C27 *)

-----------------------------------------------------------------------------
(* C28 *)

\* stop-the-line has fired in the run
Fired == StopEntries # {}

\* the gate's verdict on the product the loop persisted last
LastVerdict == last.qa[1].status

\* C28: at the start of every iteration of the extraction loop the stop
\* condition, extracted_total >= 5 and 2 * quarantined_total > extracted_total,
\* is false; so when stop-the-line has fired with extracted_total > 5 the
\* product just persisted was quarantined, and when it has fired on a product
\* that was not quarantined extracted_total is exactly 5.
C28_BrakeOnlyOnCrossing ==
    /\ run.pc = "loop" =>
          ~(/\ run.report.extracted_total >= 5
            /\ 2 * run.report.quarantined_total > run.report.extracted_total)
    /\ (Fired /\ run.report.extracted_total > 5) => LastVerdict = "quarantined"
    /\ (Fired /\ LastVerdict # "quarantined") => run.report.extracted_total = 5

\* stop-the-line has fired at the seventh product
C28_FiredAtSeven == Fired /\ run.report.extracted_total = 7

\* stop-the-line has fired on a product that was not quarantined
C28_FiredOnPassingProduct == Fired /\ LastVerdict # "quarantined"

-----------------------------------------------------------------------------
(* C26 *)

\* the step leaves every row of the table as it is, but for the fields named,
\* and neither adds nor removes a row
OnlyFieldsChange(rows, rows_after, fields) ==
    /\ Len(rows_after) = Len(rows)
    /\ \A i \in 1..Len(rows) :
          \A f \in (DOMAIN rows[i]) \ fields : rows_after[i][f] = rows[i][f]

\* what an approval of the record q with notes does to the record and to the
\* status of its product; nothing but the product fields named changes
ApprovalEffect(q, notes, fields) ==
    IF q \in 1..Len(quarantine_details)
    THEN /\ quarantine_details'[q].review_status = "approved"
         /\ quarantine_details'[q].reviewer_notes = notes
         /\ quarantine_details'[q].reviewed_at = Some(now)
         /\ OnlyFieldsChange(quarantine_details, quarantine_details',
                             {"review_status", "reviewer_notes", "reviewed_at"})
         /\ \A r \in 1..Len(quarantine_details) :
               r # q => quarantine_details'[r] = quarantine_details[r]
         /\ products'[quarantine_details[q].product_id].verification_status
               = "verified_inci"
         /\ OnlyFieldsChange(products, products', fields)
         /\ \A i \in 1..Len(products) :
               i # quarantine_details[q].product_id => products'[i] = products[i]
         /\ evidence' = evidence
    ELSE UNCHANGED <<products, evidence, quarantine_details>>

\* C26 as stated: approving a quarantine record sets its review_status to
\* approved, records notes and reviewed_at, sets its product's
\* verification_status to verified_inci and changes no other field of the
\* product; approving an id that does not exist changes nothing in the store.
C26_ApprovalFrame ==
    [][\A q \in 1..2, notes \in Notes :
          approve_quarantined(q, notes)
          => ApprovalEffect(q, notes, {"verification_status"})]_vars

\* C26, amended: ... and changes no other field of the product but updated_at.
C26_ApprovalFrameButUpdatedAt ==
    [][\A q \in 1..2, notes \in Notes :
          approve_quarantined(q, notes)
          => ApprovalEffect(q, notes, {"verification_status", "updated_at"})]_vars

\* a quarantined product has been approved, after it was labelled
C26_ApprovedAfterLabels ==
    \E q \in 1..Len(quarantine_details) :
        /\ quarantine_details[q].review_status = "approved"
        /\ products[quarantine_details[q].product_id].verification_status
              = "verified_inci"
        /\ products[quarantine_details[q].product_id].product_labels # None
        /\ quarantine_details[q].reviewed_at
              = Some(products[quarantine_details[q].product_id].updated_at)

-----------------------------------------------------------------------------
(* C29 *)

\* the step is an upsert_product call, on the product_url of its extraction
UpsertStep == now' # now /\ last'.extraction # None

\* the row the call found for its product_url, 0 for none
FoundRow == FindProduct(products, last'.extraction[1].product_url)

\* the QuarantineDetail row of that product, 0 for none
FoundDetail == FindQuarantine(quarantine_details, products[FoundRow].id)

\* C29: upsert_product on a product_url that is stored already leaves the id,
\* brand_slug, created_at and product_labels of the row as they are; of a
\* QuarantineDetail that exists already it changes rejection_reason only, and
\* when the new status is not quarantined it leaves that row as it is.
C29_UpsertFrame ==
    [][(UpsertStep /\ FoundRow # 0) =>
          /\ Len(products') = Len(products)
          /\ \A f \in {"id", "brand_slug", "created_at", "product_labels"} :
                products'[FoundRow][f] = products[FoundRow][f]
          /\ FoundDetail # 0 =>
                /\ Len(quarantine_details') = Len(quarantine_details)
                /\ \A f \in (DOMAIN quarantine_details[FoundDetail])
                            \ {"rejection_reason"} :
                      quarantine_details'[FoundDetail][f]
                         = quarantine_details[FoundDetail][f]
                /\ last'.qa[1].status # "quarantined" =>
                      quarantine_details'[FoundDetail]
                         = quarantine_details[FoundDetail]]_vars

\* upsert_product has overwritten, with a status that is not quarantined, a
\* row that carried labels and had a QuarantineDetail
C29_LabelledRowUpserted ==
    /\ last.extraction # None
    /\ last.before = "quarantined"
    /\ last.qa[1].status # "quarantined"
    /\ products[last.product_id].product_labels # None
    /\ FindQuarantine(quarantine_details, last.product_id) # 0

\* upsert_product has quarantined again a product whose QuarantineDetail had
\* been approved
C29_ApprovedRowQuarantinedAgain ==
    /\ last.extraction # None
    /\ last.before # "none"
    /\ last.qa[1].status = "quarantined"
    /\ \E q \in 1..Len(quarantine_details) :
          /\ quarantine_details[q].product_id = last.product_id
          /\ quarantine_details[q].review_status = "approved"

-----------------------------------------------------------------------------
(* DOMCrawlerAdapter.discover *)

RECURSIVE Within(_, _)
\* the pages at most k links away from an entrypoint of the configuration
Within(config, k) ==
    IF k = 0 THEN {config.entrypoints[i] : i \in 1..Len(config.entrypoints)}
    ELSE Within(config, k - 1)
            \cup UNION {LinksOf(config, url) : url \in Within(config, k - 1)}

\* no URL is requested twice
RequestedOnce ==
    \A i, j \in 1..Len(crawl.requests) :
        crawl.requests[i].url = crawl.requests[j].url => i = j

\* every page requested is at most max_depth links away from an entrypoint
RequestedWithinDepth ==
    \A i \in 1..Len(crawl.requests) :
        crawl.requests[i].url \in Within(crawl.config[1], crawl.config[1].max_depth)

\* what discover returns holds at most max_pages URLs
ReturnsAtMostMaxPages ==
    crawl.pc = "returned" => Cardinality(crawl.result) <= crawl.config[1].max_pages

\* a step of the loop requests a page whose request raises
FailedRequest ==
    /\ crawl.pc = "loop"
    /\ Len(crawl'.requests) > Len(crawl.requests)
    /\ Head(crawl.to_crawl).url \in crawl.config[1].fails

\* the loop goes on with the rest of the queue after a failed request, and
\* ends only when the queue is empty or max_pages URLs are found
KeepsGoing ==
    /\ FailedRequest => crawl'.pc = "loop" /\ crawl'.to_crawl = Tail(crawl.to_crawl)
    /\ crawl.pc = "loop" /\ crawl'.pc # "loop" => ~CrawlGoesOn

\* discover has ended
Discovered == crawl.pc \in {"returned", "raised"}

\* C30: DOMCrawlerAdapter.discover ends on every finite link graph, requests
\* no URL twice, requests no page that is more than max_depth links away from
\* an entrypoint, goes on with the queue after a page whose request raises,
\* and returns at most max_pages URLs.
C30_CrawlBounded ==
    /\ [](RequestedOnce /\ RequestedWithinDepth /\ ReturnsAtMostMaxPages)
    /\ [][KeepsGoing]_vars
    /\ <>Discovered

\* discover has returned after a failed request that was followed by another,
\* having skipped a URL queued twice, left a linked category page beyond
\* max_depth alone, and cut the URLs found down to max_pages
C30_CrawlCompleted ==
    /\ crawl.pc = "returned"
    /\ \E i \in 1..Len(crawl.requests) :
          /\ crawl.requests[i].url \in crawl.config[1].fails
          /\ i < Len(crawl.requests)
    /\ \E i, j \in 1..Len(crawl.config[1].entrypoints) :
          i # j /\ crawl.config[1].entrypoints[i] = crawl.config[1].entrypoints[j]
    /\ \E url \in crawl.all_urls :
          /\ classify_url(url, crawl.config[1].product_url_pattern) = "category"
          /\ url \notin crawl.visited
          /\ url \notin Within(crawl.config[1], crawl.config[1].max_depth)
    /\ Cardinality(crawl.all_urls) > crawl.config[1].max_pages
    /\ crawl.result # {}
====
